---- MODULE Spec2Model ----
(***************************************************************************)
(* Compile-time constant (Param) representation, interning and folding of  *)
(* the Chapel front end: frontend/lib/types/Param.cpp.                     *)
(*                                                                         *)
(* Fixed-width integers are little-endian byte sequences, so that 8, 16,   *)
(* 32 and 64 bit two's-complement values keep their exact width.           *)
(* Every payload is a sequence of integers: <<0>> or <<1>> for a bool, the  *)
(* bytes of an integer, <<n>> for the whole-number double n.0, <<re, im>>  *)
(* for a complex, the character codes of a string.                         *)
(***************************************************************************)
EXTENDS Integers, Sequences, FiniteSets, TLC

VARIABLES store, hist, last, inp, ncalls, errno

vars == <<store, hist, last, inp, ncalls, errno>>

(***************************************************************************)
(* Bounds of the model.                                                    *)
(***************************************************************************)
\* most calls made on the contexts of the interning state machine
MaxCalls == 4

(***************************************************************************)
(* Byte-sequence integers.                                                 *)
(***************************************************************************)
RECURSIVE Bytes(_, _)
\* the k low bytes of the two's-complement representation of n
Bytes(n, k) == IF k = 0 THEN <<>> ELSE <<n % 256>> \o Bytes(n \div 256, k - 1)

RECURSIVE UVal(_)
\* unsigned value of a byte sequence (only used on short sequences)
UVal(w) == IF w = <<>> THEN 0 ELSE w[1] + 256 * UVal(Tail(w))

IsNeg(w) == w[Len(w)] >= 128

\* signed value of a byte sequence of at most two bytes
SVal(w) == IF IsNeg(w) THEN UVal(w) - (IF Len(w) = 1 THEN 256 ELSE 65536)
           ELSE UVal(w)

\* C++ integral conversion to a narrower type: keep the low bytes
Narrow(w, k) == SubSeq(w, 1, k)

\* C++ integral conversion of a signed value to a wider type
SignExtend(w, k) == w \o [i \in 1..(k - Len(w)) |-> IF IsNeg(w) THEN 255 ELSE 0]

\* C++ integral conversion of an unsigned value to a wider type
ZeroExtend(w, k) == w \o [i \in 1..(k - Len(w)) |-> 0]

\* the small integer n as an int64_t / uint64_t
I64(n) == Bytes(n, 8)

\* true when the 8-byte word is the sign extension of its low k bytes
FitsSigned(w, k) == SignExtend(Narrow(w, k), Len(w)) = w

\* true when the 8-byte word is the zero extension of its low k bytes
FitsUnsigned(w, k) == ZeroExtend(Narrow(w, k), Len(w)) = w

(***************************************************************************)
(* Floating point: double -> float conversion.  float has a 24 bit         *)
(* significand, so whole numbers of magnitude above 2^24 round to even.    *)
(***************************************************************************)
Abs(x) == IF x < 0 THEN 0 - x ELSE x

ToFloat32(x) ==
  IF Abs(x) <= 16777216 THEN x
  ELSE LET m == Abs(x)
           lo == (m \div 2) * 2
           r == IF m = lo THEN m
                ELSE IF (lo \div 2) % 2 = 0 THEN lo ELSE lo + 2
       IN IF x < 0 THEN 0 - r ELSE r

(***************************************************************************)
(* Types (the type system is consumed through kind and bitwidth only).     *)
(***************************************************************************)
Ty(k, w) == [kind |-> k, width |-> w]

BoolTy == Ty("bool", 0)
StringTy == Ty("string", 0)
BytesTy == Ty("bytes", 0)
CStringTy == Ty("cstring", 0)
NothingTy == Ty("nothing", 0)
UnknownTy == Ty("unknown", 0)
RecordTy == Ty("record", 0)
NullTy == Ty("null", 0)

IntWidths == {8, 16, 32, 64}

IntTypes == {Ty("int", w) : w \in IntWidths}
UintTypes == {Ty("uint", w) : w \in IntWidths}
RealTypes == {Ty("real", w) : w \in {32, 64}}
ImagTypes == {Ty("imag", w) : w \in {32, 64}}
ComplexTypes == {Ty("complex", w) : w \in {64, 128}}
StringLikeTypes == {StringTy, BytesTy, CStringTy}

\* the types paramToImmediate maps to an Immediate that keeps the type
SupportedTypes ==
  {BoolTy} \cup IntTypes \cup UintTypes \cup RealTypes \cup ImagTypes
    \cup ComplexTypes \cup StringLikeTypes

(***************************************************************************)
(* Params: a tag and a payload.  NoParam is the null Param pointer.        *)
(***************************************************************************)
P(t, v) == [tag |-> t, val |-> v]

NoParam == P("null", <<>>)

\* payload constructors
B(b) == <<IF b THEN 1 ELSE 0>>
R(n) == <<n>>

(***************************************************************************)
(* Interning: the per-context query cache of the Param getters.  A cache   *)
(* is the sequence of the Params created so far; an instance is named by   *)
(* its position, which never changes.                                      *)
(***************************************************************************)
Ctx == {1, 2}

Lookup(st, p) == {i \in 1..Len(st) : st[i] = p}

\* the getter without the query's memoization: every call constructs
getParam_NoMemo(st, p) ==
  [st |-> Append(st, p), inst |-> Len(st) + 1, created |-> TRUE]

\* the getter on a cache that drops its oldest entry to make room
getParam_Evict(st, p) ==
  IF Lookup(st, p) # {}
    THEN [st |-> st, inst |-> CHOOSE i \in Lookup(st, p) : TRUE, created |-> FALSE]
  ELSE IF Len(st) >= 2
    THEN [st |-> Append(Tail(st), p), inst |-> Len(st), created |-> TRUE]
    ELSE [st |-> Append(st, p), inst |-> Len(st) + 1, created |-> TRUE]

\* the getter remembering only the result of the latest construction
getParam_Latest(st, p) ==
  IF Len(st) > 0 /\ st[Len(st)] = p
    THEN [st |-> st, inst |-> Len(st), created |-> FALSE]
    ELSE [st |-> Append(st, p), inst |-> Len(st) + 1, created |-> TRUE]

\* NAME::get##NAME, the memoized query: the saved result for these
\* arguments if there is one, a newly constructed Param otherwise
getParam(st, p) ==
  IF Lookup(st, p) # {}
    THEN [st |-> st, inst |-> CHOOSE i \in Lookup(st, p) : TRUE, created |-> FALSE]
    ELSE [st |-> Append(st, p), inst |-> Len(st) + 1, created |-> TRUE]

(***************************************************************************)
(* Immediates: discriminant (const_kind, num_index, string_kind), the      *)
(* union member that was written and its contents.                         *)
(***************************************************************************)
Imm(ck, ni, sk, f, v) ==
  [const_kind |-> ck, num_index |-> ni, string_kind |-> sk, field |-> f, v |-> v]

\* a result that is an internal-invariant failure (CHPL_ASSERT)
ImmFail == [ok |-> FALSE, imm |-> Imm("none", "none", "none", "none", <<>>)]

ImmOk(i) == [ok |-> TRUE, imm |-> i]

\* the width selector of the default integer width for every type
IntIndex_Default(w) == "INT_SIZE_64"

\* the width selector written for an integer type of bitwidth w
IntIndex(w) ==
  CASE w = 8 -> "INT_SIZE_8" [] w = 16 -> "INT_SIZE_16"
    [] w = 32 -> "INT_SIZE_32" [] w = 64 -> "INT_SIZE_64"

\* every selector taken for the next larger width
IndexBytes_NextSize(ni) ==
  CASE ni = "INT_SIZE_8" -> 2 [] ni = "INT_SIZE_16" -> 4
    [] ni = "INT_SIZE_32" -> 8 [] ni = "INT_SIZE_64" -> 8

\* the integer Immediates' width in bytes
IndexBytes(ni) ==
  CASE ni = "INT_SIZE_8" -> 1 [] ni = "INT_SIZE_16" -> 2
    [] ni = "INT_SIZE_32" -> 4 [] ni = "INT_SIZE_64" -> 8

ZeroBytes(k) == [i \in 1..k |-> 0]

\* the helper with (T) -1 for a null Param
getImmediateValueOrEmpty_AllOnes(p, k) ==
  IF p # NoParam THEN Narrow(p.val, k) ELSE [i \in 1..k |-> 255]

\* getImmediateValueOrEmpty<T, S>: the Param's value converted to T, or (T) 0
getImmediateValueOrEmpty(p, k) ==
  IF p # NoParam THEN Narrow(p.val, k) ELSE ZeroBytes(k)

getImmediateValueOrEmptyBool(p) == IF p # NoParam THEN p.val ELSE B(FALSE)

getImmediateValueOrEmptyReal(p, w) ==
  IF p # NoParam THEN (IF w = 32 THEN R(ToFloat32(p.val[1])) ELSE p.val) ELSE R(0)

getImmediateValueOrEmptyComplex(p) == IF p # NoParam THEN p.val ELSE <<0, 0>>

getImmediateValueOrEmptyString(p) == IF p # NoParam THEN p.val ELSE <<>>

\* the mapping with the imaginary types classified with the complex ones
guessParamTagFromType_ImagComplex(t) ==
  CASE t.kind = "bool" -> "BoolParam"
    [] t.kind \in {"complex", "imag"} -> "ComplexParam"
    [] t.kind = "int" -> "IntParam"
    [] t.kind = "uint" -> "UintParam"
    [] t.kind = "real" -> "RealParam"
    [] t.kind \in {"string", "bytes", "cstring"} -> "StringParam"
    [] t.kind = "nothing" -> "NoneParam"
    [] OTHER -> "assert"

\* the mapping without the branch of the nothing type
guessParamTagFromType_NoNothing(t) ==
  CASE t.kind = "bool" -> "BoolParam"
    [] t.kind = "complex" -> "ComplexParam"
    [] t.kind = "int" -> "IntParam"
    [] t.kind = "uint" -> "UintParam"
    [] t.kind \in {"real", "imag"} -> "RealParam"
    [] t.kind \in {"string", "bytes", "cstring"} -> "StringParam"
    [] OTHER -> "assert"

\* guessParamTagFromType(t): the Param kind of a Type, "assert" for the
\* final else branch
guessParamTagFromType(t) ==
  CASE t.kind = "bool" -> "BoolParam"
    [] t.kind = "complex" -> "ComplexParam"
    [] t.kind = "int" -> "IntParam"
    [] t.kind = "uint" -> "UintParam"
    [] t.kind = "real" -> "RealParam"
    [] t.kind = "imag" -> "RealParam"
    [] t.kind = "string" -> "StringParam"
    [] t.kind = "bytes" -> "StringParam"
    [] t.kind = "cstring" -> "StringParam"
    [] t.kind = "nothing" -> "NoneParam"
    [] OTHER -> "assert"

paramToImmediate(p, t) ==
  LET tag == IF p # NoParam THEN p.tag ELSE guessParamTagFromType(t) IN
  CASE tag = "BoolParam" ->
         ImmOk(Imm("NUM_KIND_BOOL", "BOOL_SIZE_SYS", "none", "v_bool",
                   getImmediateValueOrEmptyBool(p)))
    [] tag = "ComplexParam" ->
         LET v == getImmediateValueOrEmptyComplex(p) IN
         IF t.kind # "complex" THEN ImmFail
         ELSE IF t.width = 64
           THEN ImmOk(Imm("NUM_KIND_COMPLEX", "COMPLEX_SIZE_64", "none",
                          "v_complex64", <<ToFloat32(v[1]), ToFloat32(v[2])>>))
         ELSE IF t.width = 128
           THEN ImmOk(Imm("NUM_KIND_COMPLEX", "COMPLEX_SIZE_128", "none",
                          "v_complex128", v))
         ELSE ImmFail
    [] tag = "EnumParam" -> ImmFail
    [] tag = "IntParam" ->
         IF t.kind # "int" THEN ImmFail
         ELSE IF t.width \in IntWidths
           THEN ImmOk(Imm("NUM_KIND_INT", IntIndex(t.width), "none",
                          "v_int",
                          getImmediateValueOrEmpty(p, t.width \div 8)))
         ELSE ImmFail
    [] tag = "NoneParam" ->
         ImmOk(Imm("NUM_KIND_BOOL", "BOOL_SIZE_SYS", "none", "v_bool", B(FALSE)))
    [] tag = "RealParam" ->
         IF t.kind = "real" /\ t.width \in {32, 64}
           THEN ImmOk(Imm("NUM_KIND_REAL",
                          IF t.width = 32 THEN "FLOAT_SIZE_32" ELSE "FLOAT_SIZE_64",
                          "none", "v_float",
                          getImmediateValueOrEmptyReal(p, t.width)))
         ELSE IF t.kind = "imag" /\ t.width \in {32, 64}
           THEN ImmOk(Imm("NUM_KIND_IMAG",
                          IF t.width = 32 THEN "FLOAT_SIZE_32" ELSE "FLOAT_SIZE_64",
                          "none", "v_float",
                          getImmediateValueOrEmptyReal(p, t.width)))
         ELSE ImmFail
    [] tag = "StringParam" ->
         LET v == getImmediateValueOrEmptyString(p) IN
         IF t.kind = "string"
           THEN ImmOk(Imm("CONST_KIND_STRING", "none", "STRING_KIND_STRING", "v_string", v))
         ELSE IF t.kind = "bytes"
           THEN ImmOk(Imm("CONST_KIND_STRING", "none", "STRING_KIND_BYTES", "v_string", v))
         ELSE IF t.kind = "cstring"
           THEN ImmOk(Imm("CONST_KIND_STRING", "none", "STRING_KIND_C_STRING", "v_string", v))
         ELSE ImmFail
    [] tag = "UintParam" ->
         IF t.kind # "uint" THEN ImmFail
         ELSE IF t.width \in IntWidths
           THEN ImmOk(Imm("NUM_KIND_UINT", IntIndex(t.width), "none",
                          "v_uint",
                          getImmediateValueOrEmpty(p, t.width \div 8)))
         ELSE ImmFail
    [] OTHER -> ImmFail

\* a (Param, Type) pair together with the cache after the getter ran;
\* ok = FALSE is an internal-invariant failure
PairFail(st) == [ok |-> FALSE, st |-> st, inst |-> 0, type |-> NullTy, created |-> FALSE]

Pair(g, t) == [ok |-> TRUE, st |-> g.st, inst |-> g.inst, type |-> t, created |-> g.created]

\* the signed member read as an unsigned one
readImmInt_Unsigned(imm) == ZeroExtend(imm.v, 8)

\* IntParam::get(context, imm.v_int8 .. imm.v_int64): the signed member of
\* the Immediate's width, converted to the getter's int64_t argument
readImmInt(imm) == SignExtend(imm.v, 8)

\* the test of the bool member inverted
readImmBool_Inverted(imm) == B(imm.v = B(FALSE))

\* BoolParam::get(context, imm.v_bool != 0)
readImmBool(imm) == B(imm.v # B(FALSE))

immediateToParam(st, imm) ==
  CASE imm.const_kind = "NUM_KIND_INT" ->
         IF imm.num_index \in {"INT_SIZE_8", "INT_SIZE_16", "INT_SIZE_32", "INT_SIZE_64"}
           THEN Pair(getParam(st, P("IntParam", readImmInt(imm))),
                     Ty("int", 8 * IndexBytes(imm.num_index)))
           ELSE PairFail(st)
    [] imm.const_kind = "NUM_KIND_BOOL" ->
         Pair(getParam(st, P("BoolParam", readImmBool(imm))), BoolTy)
    [] imm.const_kind = "CONST_KIND_STRING" ->
         CASE imm.string_kind = "STRING_KIND_STRING" ->
                Pair(getParam(st, P("StringParam", imm.v)), StringTy)
           [] imm.string_kind = "STRING_KIND_BYTES" ->
                Pair(getParam(st, P("StringParam", imm.v)), BytesTy)
           [] imm.string_kind = "STRING_KIND_C_STRING" ->
                Pair(getParam(st, P("StringParam", imm.v)), CStringTy)
           [] OTHER -> PairFail(st)
    [] imm.const_kind = "NUM_KIND_REAL" ->
         CASE imm.num_index = "FLOAT_SIZE_32" ->
                Pair(getParam(st, P("RealParam", imm.v)), Ty("real", 32))
           [] imm.num_index = "FLOAT_SIZE_64" ->
                Pair(getParam(st, P("RealParam", imm.v)), Ty("real", 64))
           [] OTHER -> PairFail(st)
    [] imm.const_kind = "NUM_KIND_IMAG" ->
         CASE imm.num_index = "FLOAT_SIZE_32" ->
                Pair(getParam(st, P("RealParam", imm.v)), Ty("imag", 32))
           [] imm.num_index = "FLOAT_SIZE_64" ->
                Pair(getParam(st, P("RealParam", imm.v)), Ty("imag", 64))
           [] OTHER -> PairFail(st)
    [] imm.const_kind = "NUM_KIND_COMPLEX" ->
         CASE imm.num_index = "COMPLEX_SIZE_64" ->
                Pair(getParam(st, P("ComplexParam", imm.v)), Ty("complex", 64))
           [] imm.num_index = "COMPLEX_SIZE_128" ->
                Pair(getParam(st, P("ComplexParam", imm.v)), Ty("complex", 128))
           [] OTHER -> PairFail(st)
    [] imm.const_kind = "NUM_KIND_UINT" ->
         IF imm.num_index \in {"INT_SIZE_8", "INT_SIZE_16", "INT_SIZE_32", "INT_SIZE_64"}
           THEN Pair(getParam(st, P("UintParam", ZeroExtend(imm.v, 8))),
                     Ty("uint", 8 * IndexBytes(imm.num_index)))
           ELSE PairFail(st)
    [] OTHER -> PairFail(st)

(***************************************************************************)
(* Primitive operator tags.                                                *)
(***************************************************************************)
\* the allow-list with its last case missing
isParamOpFoldable_NoSqrt(op) ==
  op \in {"P_prim_pow", "P_prim_mult", "P_prim_div", "P_prim_mod", "P_prim_add",
          "P_prim_subtract", "P_prim_lsh", "P_prim_rsh", "P_prim_less",
          "P_prim_lessorequal", "P_prim_greater", "P_prim_greaterorequal",
          "P_prim_equal", "P_prim_notequal", "P_prim_and", "P_prim_xor",
          "P_prim_or", "P_prim_land", "P_prim_lor", "P_prim_plus", "P_prim_minus",
          "P_prim_not", "P_prim_lnot", "P_prim_abs"}

isParamOpFoldable(op) ==
  CASE op = "P_prim_pow" -> TRUE
    [] op = "P_prim_mult" -> TRUE
    [] op = "P_prim_div" -> TRUE
    [] op = "P_prim_mod" -> TRUE
    [] op = "P_prim_add" -> TRUE
    [] op = "P_prim_subtract" -> TRUE
    [] op = "P_prim_lsh" -> TRUE
    [] op = "P_prim_rsh" -> TRUE
    [] op = "P_prim_less" -> TRUE
    [] op = "P_prim_lessorequal" -> TRUE
    [] op = "P_prim_greater" -> TRUE
    [] op = "P_prim_greaterorequal" -> TRUE
    [] op = "P_prim_equal" -> TRUE
    [] op = "P_prim_notequal" -> TRUE
    [] op = "P_prim_and" -> TRUE
    [] op = "P_prim_xor" -> TRUE
    [] op = "P_prim_or" -> TRUE
    [] op = "P_prim_land" -> TRUE
    [] op = "P_prim_lor" -> TRUE
    [] op = "P_prim_plus" -> TRUE
    [] op = "P_prim_minus" -> TRUE
    [] op = "P_prim_not" -> TRUE
    [] op = "P_prim_lnot" -> TRUE
    [] op = "P_prim_abs" -> TRUE
    [] op = "P_prim_sqrt" -> TRUE
    [] OTHER -> FALSE

ArithOps == {"P_prim_add", "P_prim_subtract", "P_prim_mult"}
CompareOps == {"P_prim_less", "P_prim_lessorequal", "P_prim_greater",
               "P_prim_greaterorequal", "P_prim_equal", "P_prim_notequal"}
BitOps == {"P_prim_and", "P_prim_xor", "P_prim_or"}
ShiftOps == {"P_prim_lsh", "P_prim_rsh"}
DivOps == {"P_prim_div", "P_prim_mod"}
LogicOps == {"P_prim_land", "P_prim_lor"}
UnaryOps == {"P_prim_plus", "P_prim_minus", "P_prim_not", "P_prim_lnot",
             "P_prim_abs", "P_prim_sqrt"}

\* the operators the spec's allow-list names
AllowList ==
  {"P_prim_pow"} \cup ArithOps \cup DivOps \cup ShiftOps \cup CompareOps
    \cup BitOps \cup LogicOps \cup UnaryOps

\* primitive tags that are not on the allow-list
OtherOps == {"PRIM_CAST", "PRIM_MOVE", "PRIM_RETURN", "PRIM_NOOP", "PRIM_ADDR_OF",
             "PRIM_GET_MEMBER", "PRIM_TYPEOF", "PRIM_NEW", "PRIM_ASSIGN"}

AllOps == AllowList \cup OtherOps

(***************************************************************************)
(* Fixed-width arithmetic on byte sequences.                               *)
(***************************************************************************)
RECURSIVE AddC(_, _, _)
\* a + b + carry, truncated to the operands' width
AddC(a, b, c) ==
  IF a = <<>> THEN <<>>
  ELSE LET s == a[1] + b[1] + c
       IN <<s % 256>> \o AddC(Tail(a), Tail(b), s \div 256)

Compl(a) == [i \in 1..Len(a) |-> 255 - a[i]]

WAdd(a, b) == AddC(a, b, 0)
WSub(a, b) == AddC(a, Compl(b), 1)
WNeg(a) == AddC(ZeroBytes(Len(a)), Compl(a), 1)

RECURSIVE MulByte(_, _, _)
\* a * d + carry for one byte d, truncated to a's width
MulByte(a, d, c) ==
  IF a = <<>> THEN <<>>
  ELSE LET s == a[1] * d + c
       IN <<s % 256>> \o MulByte(Tail(a), d, s \div 256)

RECURSIVE WMul(_, _)
\* a * b truncated to a's width (schoolbook, low byte of b first)
WMul(a, b) ==
  IF b = <<>> \/ a = <<>> THEN ZeroBytes(Len(a))
  ELSE WAdd(MulByte(a, b[1], 0),
            <<0>> \o WMul(SubSeq(a, 1, Len(a) - 1), Tail(b)))

RECURSIVE WPow(_, _)
WPow(a, n) == IF n = 0 THEN Bytes(1, Len(a)) ELSE WMul(a, WPow(a, n - 1))

RECURSIVE BitOp(_, _, _, _)
\* bitwise operator f on two values of n bits
BitOp(f, x, y, n) ==
  IF n = 0 THEN 0
  ELSE LET bx == x % 2
           by == y % 2
           r == CASE f = "and" -> IF bx = 1 /\ by = 1 THEN 1 ELSE 0
                  [] f = "or" -> IF bx = 1 \/ by = 1 THEN 1 ELSE 0
                  [] f = "xor" -> IF bx # by THEN 1 ELSE 0
       IN r + 2 * BitOp(f, x \div 2, y \div 2, n - 1)

WBit(f, a, b) == [i \in 1..Len(a) |-> BitOp(f, a[i], b[i], 8)]

\* one-bit shifts
Shl1(a) == AddC(a, a, 0)

Shr1(a, fill) ==
  [i \in 1..Len(a) |->
     (a[i] \div 2) + 128 * (IF i < Len(a) THEN a[i + 1] % 2 ELSE fill)]

RECURSIVE WShl(_, _)
WShl(a, n) == IF n = 0 THEN a ELSE WShl(Shl1(a), n - 1)

RECURSIVE WShr(_, _, _)
\* signed = TRUE shifts the sign bit in (arithmetic shift)
WShr(a, n, signed) ==
  IF n = 0 THEN a
  ELSE WShr(Shr1(a, IF signed /\ IsNeg(a) THEN 1 ELSE 0), n - 1, signed)

RECURSIVE ULess(_, _)
\* unsigned a < b, comparing from the most significant byte
ULess(a, b) ==
  IF a = <<>> THEN FALSE
  ELSE LET n == Len(a) IN
       IF a[n] # b[n] THEN a[n] < b[n]
       ELSE ULess(SubSeq(a, 1, n - 1), SubSeq(b, 1, n - 1))

SLess(a, b) ==
  IF IsNeg(a) # IsNeg(b) THEN IsNeg(a) ELSE ULess(a, b)

\* C++ truncating division of small integers
TruncDiv(x, y) ==
  LET q == Abs(x) \div Abs(y) IN IF (x < 0) # (y < 0) THEN 0 - q ELSE q

TruncMod(x, y) == x - y * TruncDiv(x, y)

\* value of an integer Immediate's payload when it fits 16 bits
Small(a, signed) ==
  IF signed THEN SVal(Narrow(a, IF Len(a) = 1 THEN 1 ELSE 2))
  ELSE UVal(Narrow(a, IF Len(a) = 1 THEN 1 ELSE 2))

IsSmall(a, signed) ==
  IF Len(a) <= 2 THEN TRUE
  ELSE IF signed THEN FitsSigned(a, 2) ELSE FitsUnsigned(a, 2)

(***************************************************************************)
(* The evaluator of ../immediates/num.h (fold_constant, coerce_immediate): *)
(* numeric semantics at the operands' bit width.  NullImm is a null        *)
(* Immediate pointer.                                                      *)
(***************************************************************************)
NullImm == Imm("nullptr", "none", "none", "none", <<>>)

IsIntImm(a) == a.const_kind \in {"NUM_KIND_INT", "NUM_KIND_UINT"}
IsFloatImm(a) == a.const_kind \in {"NUM_KIND_REAL", "NUM_KIND_IMAG"}
IsBoolImm(a) == a.const_kind = "NUM_KIND_BOOL"
IsStringImm(a) == a.const_kind = "CONST_KIND_STRING"
Signed(a) == a.const_kind = "NUM_KIND_INT"

SameShape(a, b) ==
  /\ a.const_kind = b.const_kind
  /\ a.num_index = b.num_index
  /\ a.string_kind = b.string_kind

BoolImm(v) == Imm("NUM_KIND_BOOL", "BOOL_SIZE_SYS", "none", "v_bool", B(v))

\* a bool Immediate's truth value
Truth(a) == a.v # B(FALSE)

\* a real Immediate's value
RV(a) == a.v[1]

WithVal(a, v) == [a EXCEPT !.v = v]

RoundTo(a, x) == R(IF a.num_index = "FLOAT_SIZE_32" THEN ToFloat32(x) ELSE x)

IsSquare(x) == \E r \in 0..8 : r * r = x

Less(a, b) ==
  CASE IsIntImm(a) -> IF Signed(a) THEN SLess(a.v, b.v) ELSE ULess(a.v, b.v)
    [] IsFloatImm(a) -> RV(a) < RV(b)
    [] IsBoolImm(a) -> (~Truth(a)) /\ Truth(b)
    [] OTHER -> FALSE

\* the operand combinations on which the evaluator's result is modelled
Evaluable(op, a, b) ==
  IF b = NullImm
    THEN \/ IsIntImm(a) /\ op \in {"P_prim_plus", "P_prim_minus", "P_prim_not", "P_prim_abs"}
         \/ IsFloatImm(a) /\ op \in {"P_prim_plus", "P_prim_minus", "P_prim_abs"}
         \/ IsFloatImm(a) /\ op = "P_prim_sqrt" /\ IsSquare(RV(a))
         \/ IsBoolImm(a) /\ op = "P_prim_lnot"
    ELSE /\ SameShape(a, b)
         /\ \/ IsIntImm(a) /\ op \in ArithOps \cup CompareOps \cup BitOps
            \/ /\ IsIntImm(a) /\ op = "P_prim_pow"
               /\ IsSmall(b.v, Signed(b)) /\ Small(b.v, Signed(b)) \in 0..3
            \/ /\ IsIntImm(a) /\ op \in ShiftOps
               /\ IsSmall(b.v, Signed(b))
               /\ Small(b.v, Signed(b)) \in 0..(8 * Len(a.v) - 1)
            \/ /\ IsIntImm(a) /\ op \in DivOps
               /\ IsSmall(a.v, Signed(a)) /\ IsSmall(b.v, Signed(b))
               /\ Small(b.v, Signed(b)) # 0
               /\ ~(Signed(a) /\ Small(b.v, TRUE) = 0 - 1 /\ a.v = WNeg(a.v) /\ IsNeg(a.v))
            \/ IsFloatImm(a) /\ op \in ArithOps \cup CompareOps
            \/ IsBoolImm(a) /\ op \in CompareOps \cup LogicOps
            \/ IsStringImm(a) /\ op \in {"P_prim_equal", "P_prim_notequal"}

fold_constant(op, a, b) ==
  CASE op = "P_prim_less" -> BoolImm(Less(a, b))
    [] op = "P_prim_lessorequal" -> BoolImm(~Less(b, a))
    [] op = "P_prim_greater" -> BoolImm(Less(b, a))
    [] op = "P_prim_greaterorequal" -> BoolImm(~Less(a, b))
    [] op = "P_prim_equal" -> BoolImm(a.v = b.v)
    [] op = "P_prim_notequal" -> BoolImm(a.v # b.v)
    [] op = "P_prim_land" -> BoolImm(Truth(a) /\ Truth(b))
    [] op = "P_prim_lor" -> BoolImm(Truth(a) \/ Truth(b))
    [] op = "P_prim_lnot" -> BoolImm(~Truth(a))
    [] op = "P_prim_plus" -> a
    [] op = "P_prim_add" ->
         IF IsIntImm(a) THEN WithVal(a, WAdd(a.v, b.v))
         ELSE WithVal(a, RoundTo(a, RV(a) + RV(b)))
    [] op = "P_prim_subtract" ->
         IF IsIntImm(a) THEN WithVal(a, WSub(a.v, b.v))
         ELSE WithVal(a, RoundTo(a, RV(a) - RV(b)))
    [] op = "P_prim_mult" ->
         IF IsIntImm(a) THEN WithVal(a, WMul(a.v, b.v))
         ELSE WithVal(a, RoundTo(a, RV(a) * RV(b)))
    [] op = "P_prim_minus" ->
         IF IsIntImm(a) THEN WithVal(a, WNeg(a.v)) ELSE WithVal(a, R(0 - RV(a)))
    [] op = "P_prim_abs" ->
         IF IsIntImm(a)
           THEN WithVal(a, IF Signed(a) /\ IsNeg(a.v) THEN WNeg(a.v) ELSE a.v)
           ELSE WithVal(a, R(Abs(RV(a))))
    [] op = "P_prim_sqrt" -> WithVal(a, R(CHOOSE r \in 0..8 : r * r = RV(a)))
    [] op = "P_prim_not" -> WithVal(a, Compl(a.v))
    [] op \in BitOps ->
         WithVal(a, WBit(CASE op = "P_prim_and" -> "and" [] op = "P_prim_or" -> "or"
                           [] op = "P_prim_xor" -> "xor", a.v, b.v))
    [] op = "P_prim_pow" -> WithVal(a, WPow(a.v, Small(b.v, Signed(b))))
    [] op = "P_prim_lsh" -> WithVal(a, WShl(a.v, Small(b.v, Signed(b))))
    [] op = "P_prim_rsh" -> WithVal(a, WShr(a.v, Small(b.v, Signed(b)), Signed(a)))
    [] op = "P_prim_div" ->
         WithVal(a, Bytes(TruncDiv(Small(a.v, Signed(a)), Small(b.v, Signed(b))), Len(a.v)))
    [] op = "P_prim_mod" ->
         WithVal(a, Bytes(TruncMod(Small(a.v, Signed(a)), Small(b.v, Signed(b))), Len(a.v)))

\* an integer or bool Immediate's value as an 8-byte word
AsWord(a) ==
  CASE a.const_kind = "NUM_KIND_INT" -> SignExtend(a.v, 8)
    [] a.const_kind = "NUM_KIND_UINT" -> ZeroExtend(a.v, 8)
    [] a.const_kind = "NUM_KIND_BOOL" -> I64(IF Truth(a) THEN 1 ELSE 0)

\* the source/destination shapes on which the coercion is modelled
Coercible(from, to) ==
  \/ (IsIntImm(from) \/ IsBoolImm(from)) /\ (IsIntImm(to) \/ IsBoolImm(to))
  \/ /\ IsIntImm(from) /\ IsSmall(from.v, Signed(from))
     /\ (IsFloatImm(to) \/ to.const_kind = "NUM_KIND_COMPLEX")
  \/ /\ IsFloatImm(from) /\ IsIntImm(to)
     /\ RV(from) \in (IF Signed(to) THEN (0 - 128) ELSE 0)..127
  \/ IsFloatImm(from) /\ to.const_kind = from.const_kind
  \/ from.const_kind = "NUM_KIND_REAL" /\ to.const_kind = "NUM_KIND_COMPLEX"
  \/ from.const_kind = "NUM_KIND_COMPLEX" /\ to.const_kind = "NUM_KIND_COMPLEX"
  \/ IsStringImm(from) /\ IsStringImm(to)

\* coerce_immediate(context, from, to): to keeps its shape and receives
\* from's value converted to it
coerce_immediate(from, to) ==
  CASE IsIntImm(to) /\ ~IsFloatImm(from) -> WithVal(to, Narrow(AsWord(from), Len(to.v)))
    [] IsIntImm(to) /\ IsFloatImm(from) -> WithVal(to, Bytes(RV(from), Len(to.v)))
    [] IsBoolImm(to) -> WithVal(to, B(AsWord(from) # ZeroBytes(8)))
    [] IsFloatImm(to) /\ IsIntImm(from) ->
         WithVal(to, RoundTo(to, Small(from.v, Signed(from))))
    [] IsFloatImm(to) /\ IsFloatImm(from) -> WithVal(to, RoundTo(to, RV(from)))
    [] to.const_kind = "NUM_KIND_COMPLEX" ->
         LET c == CASE IsIntImm(from) -> <<Small(from.v, Signed(from)), 0>>
                    [] IsFloatImm(from) -> <<RV(from), 0>>
                    [] OTHER -> from.v
         IN WithVal(to, IF to.num_index = "COMPLEX_SIZE_64"
                          THEN <<ToFloat32(c[1]), ToFloat32(c[2])>> ELSE c)
    [] IsStringImm(to) -> WithVal(to, from.v)

(***************************************************************************)
(* QualifiedType: qualifier, Type pointer, Param pointer.                  *)
(***************************************************************************)
QT(q, t, p) == [q |-> q, type |-> t, param |-> p]

\* the default QualifiedType(), passed when operand B is omitted
UnknownQT == QT("UNKNOWN", NullTy, NoParam)

hasTypePtr(a) == a.type # NullTy
hasParamPtr(a) == a.param # NoParam
isUnknown(a) == a.type = NullTy \/ a.type.kind = "unknown"

(***************************************************************************)
(* Param::fold and handleParamCast.  A result carries the outcome          *)
(* ("ok", or "assert" for an internal-invariant failure), the returned     *)
(* QualifiedType (q, type, inst), the cache after the call and the         *)
(* functions the call went through.                                        *)
(***************************************************************************)
FoldFail(st, calls) ==
  [status |-> "assert", q |-> "none", type |-> NullTy, inst |-> 0, st |-> st,
   created |-> FALSE, calls |-> calls]

FoldOk(pr, calls) ==
  IF pr.ok
    THEN [status |-> "ok", q |-> "PARAM", type |-> pr.type, inst |-> pr.inst,
          st |-> pr.st, created |-> pr.created, calls |-> calls]
    ELSE FoldFail(pr.st, calls)

\* the cast with the destination Immediate shaped after the source type
handleParamCast_SrcShape(st, a, b) ==
  LET aImm == paramToImmediate(a.param, a.type)
      bImm == paramToImmediate(NoParam, a.type)
      calls == {"handleParamCast", "coerce_immediate"}
  IN IF ~aImm.ok \/ ~bImm.ok THEN FoldFail(st, {"handleParamCast"})
     ELSE FoldOk(immediateToParam(st, coerce_immediate(aImm.imm, bImm.imm)), calls)

\* the cast that wants a param value on the destination and shapes the
\* destination Immediate after it
handleParamCast_NeedsParam(st, a, b) ==
  LET aImm == paramToImmediate(a.param, a.type)
      bImm == paramToImmediate(b.param, b.type)
      calls == {"handleParamCast", "coerce_immediate"}
  IN IF b.param = NoParam \/ ~aImm.ok \/ ~bImm.ok THEN FoldFail(st, {"handleParamCast"})
     ELSE FoldOk(immediateToParam(st, coerce_immediate(aImm.imm, bImm.imm)), calls)

handleParamCast(st, a, b) ==
  LET aImm == paramToImmediate(a.param, a.type)
      bImm == paramToImmediate(NoParam, b.type)
      calls == {"handleParamCast", "coerce_immediate"}
  IN IF ~aImm.ok \/ ~bImm.ok THEN FoldFail(st, {"handleParamCast"})
     ELSE FoldOk(immediateToParam(st, coerce_immediate(aImm.imm, bImm.imm)), calls)

\* fold with a second operand that has no param value taken as unknown
fold_ValuelessUnknown(st, op, a, b) ==
  IF ~(hasTypePtr(a) /\ hasParamPtr(a)) THEN FoldFail(st, {})
  ELSE LET aImm == paramToImmediate(a.param, a.type) IN
  IF ~aImm.ok THEN FoldFail(st, {})
  ELSE IF op = "PRIM_CAST" THEN handleParamCast(st, a, b)
  ELSE IF ~isParamOpFoldable(op) THEN FoldFail(st, {"isParamOpFoldable"})
  ELSE IF isUnknown(b) \/ ~hasParamPtr(b)
    THEN IF Evaluable(op, aImm.imm, NullImm)
           THEN FoldOk(immediateToParam(st, fold_constant(op, aImm.imm, NullImm)),
                       {"isParamOpFoldable", "fold_constant"})
           ELSE FoldFail(st, {"isParamOpFoldable", "fold_constant"})
  ELSE LET bImm == paramToImmediate(b.param, b.type) IN
  IF ~bImm.ok THEN FoldFail(st, {"isParamOpFoldable"})
  ELSE FoldOk(immediateToParam(st, fold_constant(op, aImm.imm, bImm.imm)),
              {"isParamOpFoldable", "fold_constant"})

\* fold with the allow-list consulted before the cast is recognised
fold_ListFirst(st, op, a, b) ==
  IF ~(hasTypePtr(a) /\ hasParamPtr(a)) THEN FoldFail(st, {})
  ELSE LET aImm == paramToImmediate(a.param, a.type) IN
  IF ~aImm.ok THEN FoldFail(st, {})
  ELSE IF ~isParamOpFoldable(op) THEN FoldFail(st, {"isParamOpFoldable"})
  ELSE IF op = "PRIM_CAST" THEN handleParamCast(st, a, b)
  ELSE IF isUnknown(b)
    THEN FoldOk(immediateToParam(st, fold_constant(op, aImm.imm, NullImm)),
                {"isParamOpFoldable", "fold_constant"})
  ELSE IF ~(hasTypePtr(b) /\ hasParamPtr(b)) THEN FoldFail(st, {"isParamOpFoldable"})
  ELSE LET bImm == paramToImmediate(b.param, b.type) IN
  IF ~bImm.ok THEN FoldFail(st, {"isParamOpFoldable"})
  ELSE FoldOk(immediateToParam(st, fold_constant(op, aImm.imm, bImm.imm)),
              {"isParamOpFoldable", "fold_constant"})

fold(st, op, a, b) ==
  IF ~(hasTypePtr(a) /\ hasParamPtr(a)) THEN FoldFail(st, {})
  ELSE LET aImm == paramToImmediate(a.param, a.type) IN
  IF ~aImm.ok THEN FoldFail(st, {})
  ELSE IF op = "PRIM_CAST" THEN handleParamCast(st, a, b)
  ELSE IF ~isParamOpFoldable(op) THEN FoldFail(st, {"isParamOpFoldable"})
  ELSE IF isUnknown(b)
    THEN FoldOk(immediateToParam(st, fold_constant(op, aImm.imm, NullImm)),
                {"isParamOpFoldable", "fold_constant"})
  ELSE IF ~(hasTypePtr(b) /\ hasParamPtr(b)) THEN FoldFail(st, {"isParamOpFoldable"})
  ELSE LET bImm == paramToImmediate(b.param, b.type) IN
  IF ~bImm.ok THEN FoldFail(st, {"isParamOpFoldable"})
  ELSE FoldOk(immediateToParam(st, fold_constant(op, aImm.imm, bImm.imm)),
              {"isParamOpFoldable", "fold_constant"})

\* the calls whose evaluator step, if reached, is one the model defines
InDomain(op, a, b) ==
  LET aImm == paramToImmediate(a.param, a.type)
      bImm == paramToImmediate(b.param, b.type)
      dImm == paramToImmediate(NoParam, b.type)
  IN IF ~(hasTypePtr(a) /\ hasParamPtr(a)) \/ ~aImm.ok THEN TRUE
     ELSE IF op = "PRIM_CAST" THEN (dImm.ok => Coercible(aImm.imm, dImm.imm))
     ELSE IF ~isParamOpFoldable(op) THEN TRUE
     ELSE IF isUnknown(b) THEN Evaluable(op, aImm.imm, NullImm)
     ELSE IF ~(hasTypePtr(b) /\ hasParamPtr(b)) \/ ~bImm.ok THEN TRUE
     ELSE Evaluable(op, aImm.imm, bImm.imm)

(***************************************************************************)
(* Equality and serialization.                                             *)
(***************************************************************************)
\* NAME::contentsMatchInner: the payloads are equal
contentsMatchInner(p, q) == p.val = q.val

\* the calls Param::completeMatch makes on its way to the answer
completeMatchCalls(p, q) ==
  IF p.tag # q.tag THEN {"tag"} ELSE {"tag", "contentsMatchInner"}

\* the comparison without the tag test
completeMatch_PayloadOnly(p, q) ==
  IF ~contentsMatchInner(p, q) THEN FALSE
  ELSE TRUE

completeMatch(p, q) ==
  IF p.tag # q.tag THEN FALSE
  ELSE IF ~contentsMatchInner(p, q) THEN FALSE
  ELSE TRUE

Tags == <<"BoolParam", "ComplexParam", "EnumParam", "IntParam", "NoneParam",
          "RealParam", "StringParam", "UintParam">>

TagCode(t) == CHOOSE i \in 1..Len(Tags) : Tags[i] = t

\* NAME::serialize's payload, written after the tag
serializePayload(p) ==
  CASE p.tag = "BoolParam" -> p.val
    [] p.tag = "IntParam" -> p.val
    [] p.tag = "UintParam" -> p.val
    [] p.tag = "RealParam" -> Bytes(p.val[1], 8)
    [] p.tag = "ComplexParam" -> Bytes(p.val[1], 8) \o Bytes(p.val[2], 8)
    [] p.tag \in {"StringParam", "EnumParam"} -> <<Len(p.val)>> \o p.val
    [] OTHER -> <<>>

\* Param::serialize writes the tag; the subclass appends its payload
serialize(p) == <<TagCode(p.tag)>> \o serializePayload(p)

\* a whole-number double read back from its 8 bytes
ReadReal(w) == IF IsNeg(w) THEN 0 - UVal(Narrow(WNeg(w), 3)) ELSE UVal(Narrow(w, 4))

\* NAME::deserialize: read the payload and ask the getter for the Param
deserializePayload(tag, data) ==
  CASE tag = "BoolParam" -> P(tag, B(data[1] # 0))
    [] tag = "IntParam" -> P(tag, SubSeq(data, 1, 8))
    [] tag = "UintParam" -> P(tag, SubSeq(data, 1, 8))
    [] tag = "RealParam" -> P(tag, R(ReadReal(SubSeq(data, 1, 8))))
    [] tag = "ComplexParam" ->
         P(tag, <<ReadReal(SubSeq(data, 1, 8)), ReadReal(SubSeq(data, 9, 16))>>)
    [] tag \in {"StringParam", "EnumParam"} -> P(tag, SubSeq(data, 2, 1 + data[1]))
    [] OTHER -> P(tag, <<>>)

\* deserialization that constructs the Param itself
deserialize_Bypass(st, data) ==
  LET tag == data[1] IN
  IF tag \in 1..Len(Tags)
    THEN getParam_NoMemo(st, deserializePayload(Tags[tag], Tail(data)))
    ELSE [st |-> st, inst |-> 0, created |-> FALSE]

\* Param::deserialize: read the tag, dispatch on it
deserialize(st, data) ==
  LET tag == data[1] IN
  IF tag \in 1..Len(Tags)
    THEN getParam(st, deserializePayload(Tags[tag], Tail(data)))
    ELSE [st |-> st, inst |-> 0, created |-> FALSE]

(***************************************************************************)
(* State.                                                                  *)
(*   store[c]  the Params interned in context c, in creation order         *)
(*   hist      every (context, requested or computed Param value, returned *)
(*             instance, paired Type) of a getter, fold or deserialization *)
(*   last      the last call and what it returned                          *)
(*   inp       the pending fold call of the single-call specification      *)
(*   ncalls    the number of calls made so far                             *)
(*   errno     the C library's errno: "none" or "ERANGE"                   *)
(***************************************************************************)
NoInput == [op |-> "none", a |-> UnknownQT, b |-> UnknownQT]

Call(kind, c, op, a, b, r, src) ==
  [kind |-> kind, ctx |-> c, op |-> op, a |-> a, b |-> b,
   status |-> r.status, q |-> r.q, type |-> r.type, inst |-> r.inst,
   created |-> r.created, calls |-> r.calls, src |-> src]

NoCall ==
  Call("none", 0, "none", UnknownQT, UnknownQT, FoldFail(<<>>, {}), <<0, 0>>)

Issued(c, p, inst, t) == [ctx |-> c, param |-> p, inst |-> inst, type |-> t]

\* a getter result in the shape of a call result
GetRes(g) ==
  [status |-> "ok", q |-> "none", type |-> NullTy, inst |-> g.inst, st |-> g.st,
   created |-> g.created, calls |-> {}]

\* the values the resolver asks the getters for
GetValues ==
  {P("IntParam", I64(5)), P("IntParam", I64(100))}

\* the types a Param of the cache is paired with when it is an operand
OperandTypes(p) ==
  CASE p.tag = "IntParam" -> {t \in {Ty("int", 8), Ty("int", 64)} : FitsSigned(p.val, t.width \div 8)}
    [] p.tag = "UintParam" -> {t \in {Ty("uint", 8), Ty("uint", 64)} : FitsUnsigned(p.val, t.width \div 8)}
    [] p.tag = "BoolParam" -> {BoolTy}
    [] p.tag = "RealParam" -> {Ty("real", 64)}
    [] p.tag = "StringParam" -> {StringTy}
    [] OTHER -> {}

Operands(st) ==
  {QT("PARAM", t, st[i]) : <<i, t>> \in
     {x \in (1..Len(st)) \X SupportedTypes : x[2] \in OperandTypes(st[x[1]])}}

\* the operators and cast destinations of the interning state machine
MachineOps == {"P_prim_add", "P_prim_plus", "PRIM_CAST"}
CastDests == {QT("TYPE", Ty("int", 8), NoParam)}

Init ==
  /\ store = [c \in Ctx |-> <<>>]
  /\ hist = {}
  /\ last = NoCall
  /\ inp = NoInput
  /\ ncalls = 0
  /\ errno = "none"

\* the getter on one cache shared by all contexts
Get_Shared(c, p) ==
  LET g == getParam(store[c], p) IN
  /\ ncalls < MaxCalls
  /\ store' = [d \in Ctx |-> g.st]
  /\ hist' = hist \cup {Issued(c, p, g.inst, NullTy)}
  /\ last' = Call("get", c, "none", QT("PARAM", NullTy, p), UnknownQT, GetRes(g), <<0, 0>>)
  /\ ncalls' = ncalls + 1
  /\ UNCHANGED <<inp, errno>>

\* NAME::get(context, value)
Get(c, p) ==
  LET g == getParam(store[c], p) IN
  /\ ncalls < MaxCalls
  /\ store' = [store EXCEPT ![c] = g.st]
  /\ hist' = hist \cup {Issued(c, p, g.inst, NullTy)}
  /\ last' = Call("get", c, "none", QT("PARAM", NullTy, p), UnknownQT, GetRes(g), <<0, 0>>)
  /\ ncalls' = ncalls + 1
  /\ UNCHANGED <<inp, errno>>

\* Param::fold(context, op, a, b)
Fold(c, op, a, b) ==
  LET r == fold(store[c], op, a, b) IN
  /\ InDomain(op, a, b) = TRUE
  /\ ncalls < MaxCalls
  /\ store' = [store EXCEPT ![c] = r.st]
  /\ hist' = IF r.status = "ok"
              THEN hist \cup {Issued(c, r.st[r.inst], r.inst, r.type)} ELSE hist
  /\ last' = Call("fold", c, op, a, b, r, <<0, 0>>)
  /\ ncalls' = ncalls + 1
  /\ UNCHANGED <<inp, errno>>

\* p->serialize(ser) in context c, then Param::deserialize(des) in context d
SerDes(c, i, d) ==
  LET g == deserialize(store[d], serialize(store[c][i])) IN
  /\ ncalls < MaxCalls
  /\ store' = [store EXCEPT ![d] = g.st]
  /\ hist' = hist \cup {Issued(d, store[c][i], g.inst, NullTy)}
  /\ last' = Call("serdes", d, "none", QT("PARAM", NullTy, store[c][i]), UnknownQT,
                  GetRes(g), <<c, i>>)
  /\ ncalls' = ncalls + 1
  /\ UNCHANGED <<inp, errno>>

GetStep == \E c \in Ctx, p \in GetValues : Get(c, p)

FoldStep ==
  \E c \in Ctx, op \in MachineOps :
    \E a \in Operands(store[c]) :
      \E b \in (IF op = "PRIM_CAST" THEN CastDests
                ELSE IF op = "P_prim_plus" THEN {UnknownQT}
                ELSE {x \in Operands(store[c]) : x.type = a.type}) :
        Fold(c, op, a, b)

SerDesStep == \E c \in Ctx, d \in Ctx : \E i \in 1..Len(store[c]) : SerDes(c, i, d)

Next == GetStep \/ FoldStep \/ SerDesStep

Spec == Init /\ [][Next]_vars

(***************************************************************************)
(* The single-call specification: one context, one fold call whose         *)
(* operands are drawn from the sets below.                                 *)
(***************************************************************************)
MinS(k) == ZeroBytes(k - 1) \o <<128>>
MaxS(k) == [i \in 1..(k - 1) |-> 255] \o <<127>>
MaxU(k) == [i \in 1..k |-> 255]

SNums == {0, 1, 2, 5, 100, 0 - 1, 0 - 100}
UNums == {0, 1, 2, 5, 100, 200, 255}

\* k-byte signed and unsigned values
SVals(k) == {Bytes(n, k) : n \in SNums} \cup {MinS(k), MaxS(k)}
UVals(k) == {Bytes(n, k) : n \in UNums} \cup {MaxU(k)}

\* 64-bit values outside the narrower ranges
WideNums == {128, 200, 255, 256, 300, 32767, 32768, 65535, 65536, 0 - 129,
             0 - 200, 0 - 32769, 2147483647}
WideVals ==
  {I64(n) : n \in WideNums}
    \cup {MinS(8), MaxS(8), <<0, 0, 0, 128, 0, 0, 0, 0>>, <<0, 0, 0, 0, 1, 0, 0, 0>>,
          <<255, 255, 255, 255, 0, 0, 0, 0>>}

RealNums == {0, 1, 2, 4, 0 - 1, 0 - 3}
Strings == {<<>>, <<97>>, <<97, 98>>}

IntQT(w, v) == QT("PARAM", Ty("int", w), P("IntParam", SignExtend(v, 8)))
UintQT(w, v) == QT("PARAM", Ty("uint", w), P("UintParam", ZeroExtend(v, 8)))

IntOperands(w) == {IntQT(w, v) : v \in SVals(w \div 8)}
UintOperands(w) == {UintQT(w, v) : v \in UVals(w \div 8)}
RealOperands(t) == {QT("PARAM", t, P("RealParam", R(n))) : n \in RealNums}
BoolOperands == {QT("PARAM", BoolTy, P("BoolParam", B(v))) : v \in BOOLEAN}
StringOperands(t) == {QT("PARAM", t, P("StringParam", str)) : str \in Strings}
ComplexOperands(t) == {QT("PARAM", t, P("ComplexParam", <<1, 0 - 1>>))}

\* the operand sets, one per operand type
OperandSets ==
  {IntOperands(w) : w \in IntWidths} \cup {UintOperands(w) : w \in IntWidths}
    \cup {RealOperands(t) : t \in RealTypes \cup ImagTypes}
    \cup {BoolOperands} \cup {StringOperands(t) : t \in StringLikeTypes}

\* well-typed operands
TypedOperands == UNION OperandSets

\* sources of a cast: the operands above and wide 64-bit integers
CastSources ==
  TypedOperands \cup {IntQT(64, v) : v \in WideVals}
    \cup {UintQT(64, v) : v \in WideVals}
    \cup {QT("PARAM", Ty("real", 64), P("RealParam", R(16777217)))}
    \cup UNION {ComplexOperands(t) : t \in ComplexTypes}

\* destinations of a cast: a type, with or without a param value
CastTargets ==
  {QT("TYPE", t, NoParam) : t \in SupportedTypes \cup {NothingTy, RecordTy}}
    \cup {QT("PARAM", Ty("int", 8), P("IntParam", I64(7))),
          QT("VAR", Ty("int", 8), NoParam),
          QT("PARAM", Ty("real", 32), P("RealParam", R(2)))}

\* operands that break the caller's contract
BadOperands ==
  {QT("VAR", Ty("int", 8), NoParam), QT("PARAM", NullTy, P("IntParam", I64(5))),
   UnknownQT, QT("PARAM", Ty("uint", 8), P("IntParam", I64(5))),
   QT("PARAM", Ty("int", 8), P("UintParam", I64(5))),
   QT("PARAM", Ty("real", 64), P("EnumParam", <<>>)),
   QT("PARAM", RecordTy, P("StringParam", <<97>>))}

\* second operands that carry no param value
ValuelessB ==
  {UnknownQT, QT("UNKNOWN", UnknownTy, NoParam), QT("VAR", Ty("int", 8), NoParam),
   QT("TYPE", Ty("int", 64), NoParam), QT("PARAM", Ty("real", 64), NoParam),
   QT("PARAM", NullTy, P("IntParam", I64(5)))}

In(op, a, b) == [op |-> op, a |-> a, b |-> b]

\* the calls of the single-call specification
FoldInputs(ops) ==
  {x \in
     UNION {{In(op, a, b) : op \in ops, a \in S, b \in S} : S \in OperandSets}
       \cup {In(op, a, b) : op \in ops, a \in TypedOperands, b \in ValuelessB}
       \cup {In("PRIM_CAST", a, b) : a \in CastSources, b \in CastTargets}
       \cup {In(op, a, b) : op \in AllOps, a \in BadOperands,
                            b \in {UnknownQT, IntQT(8, <<1>>)}}
       \cup {In(op, a, b) : op \in OtherOps, a \in IntOperands(8) \cup BoolOperands,
                            b \in {UnknownQT, IntQT(8, <<1>>)}} :
     InDomain(x.op, x.a, x.b)}

\* the operands' Params are interned before they can be operands
Seed(x) ==
  LET sa == IF x.a.param = NoParam THEN <<>> ELSE <<x.a.param>>
  IN IF x.b.param = NoParam \/ x.b.param = x.a.param THEN sa
     ELSE Append(sa, x.b.param)

InitFold ==
  /\ inp \in FoldInputs(AllowList)
  /\ store = [c \in Ctx |-> IF c = 1 THEN Seed(inp) ELSE <<>>]
  /\ hist = {}
  /\ last = NoCall
  /\ ncalls = 0
  /\ errno = "none"

\* the pending call is made
DoFold ==
  LET r == fold(store[1], inp.op, inp.a, inp.b) IN
  /\ last.kind = "none"
  /\ store' = [store EXCEPT ![1] = r.st]
  /\ hist' = IF r.status = "ok" THEN {Issued(1, r.st[r.inst], r.inst, r.type)} ELSE {}
  /\ last' = Call("fold", 1, inp.op, inp.a, inp.b, r, <<0, 0>>)
  /\ ncalls' = 1
  /\ UNCHANGED <<inp, errno>>

NextFold == DoFold

SpecFold == InitFold /\ [][NextFold]_vars

(***************************************************************************)
(* The serialization specification: the first context starts with two      *)
(* interned Params of any kind, which are written and read back into       *)
(* either context.                                                         *)
(***************************************************************************)
ParamUniverse ==
  {P("BoolParam", B(TRUE)), P("BoolParam", B(FALSE)),
   P("IntParam", I64(5)), P("IntParam", I64(0 - 1)), P("IntParam", MinS(8)),
   P("UintParam", I64(5)), P("UintParam", I64(200)), P("UintParam", MaxU(8)),
   P("RealParam", R(1)), P("RealParam", R(0 - 2)),
   P("ComplexParam", <<1, 0 - 2>>),
   P("StringParam", <<>>), P("StringParam", <<104, 105>>),
   P("EnumParam", <<3, 114>>), P("NoneParam", <<>>)}

InitSer ==
  /\ \E p \in ParamUniverse : \E q \in ParamUniverse \ {p} :
       /\ store = [c \in Ctx |-> IF c = 1 THEN <<p, q>> ELSE <<>>]
       /\ hist = {Issued(1, p, 1, NullTy), Issued(1, q, 2, NullTy)}
  /\ last = NoCall
  /\ inp = NoInput
  /\ ncalls = 0
  /\ errno = "none"

NextSer == SerDesStep

SpecSer == InitSer /\ [][NextSer]_vars

(***************************************************************************)
(* The literal parsers.  A C string is a sequence of one-character         *)
(* strings; the byte after its last character is the terminating NUL.      *)
(* The result of a call is a record: status "ok" or "assert", the 64-bit   *)
(* value returned (val) or the double returned (num), the error string     *)
(* after the call (err) and errno after the call.                          *)
(***************************************************************************)
NUL == "NUL"

\* str[i], with i counted from 0 as in C
At(str, i) == IF i < Len(str) THEN str[i + 1] ELSE NUL

HexChars ==
  <<"0", "1", "2", "3", "4", "5", "6", "7", "8", "9", "a", "b", "c", "d", "e", "f">>

Lower(c) ==
  CASE c = "A" -> "a" [] c = "B" -> "b" [] c = "C" -> "c" [] c = "D" -> "d"
    [] c = "E" -> "e" [] c = "F" -> "f" [] OTHER -> c

DigitChar(n) == HexChars[n + 1]

DigitVal(c) == (CHOOSE i \in 1..16 : HexChars[i] = Lower(c)) - 1

\* the characters a conversion of the given radix consumes
RadixDigits(radix) ==
  {c \in {HexChars[i] : i \in 1..16} \cup {"A", "B", "C", "D", "E", "F"} :
     DigitVal(c) < radix}

\* an error string: what is reported, about which character, in which kind
\* of literal, quoting which text
Err(kind, ch, lit, text) == [kind |-> kind, ch |-> ch, lit |-> lit, text |-> text]

PRes(status, val, num, err, en) ==
  [status |-> status, val |-> val, num |-> num, err |-> err, errno |-> en]

\* return val;
ParseOk(val, err, en) == PRes("ok", val, "", err, en)

\* an error path that returns whatever was computed so far
ParseFail_Partial(e, en) == PRes("ok", Bytes(1, 8), "1.5", e, en)

\* err = ...; return 0;
ParseFail(e, en) == PRes("ok", Bytes(0, 8), "0.0", e, en)

\* a failed CHPL_ASSERT ends the call
ParseAbort(err, en) == PRes("assert", Bytes(0, 8), "0.0", err, en)

stringContainsZeroBytes(str, len) == \E i \in 1..len : str[i] = NUL

RECURSIVE SkipChar_All(_, _, _, _)
\* the skipping loop without its bound
SkipChar_All(str, len, ch, pos) ==
  IF At(str, pos) = ch THEN SkipChar_All(str, len, ch, pos + 1) ELSE pos

RECURSIVE SkipChar(_, _, _, _)
\* while (str[startPos] == ch && startPos < len-1) startPos++;
SkipChar(str, len, ch, pos) ==
  IF At(str, pos) = ch /\ pos < len - 1 THEN SkipChar(str, len, ch, pos + 1) ELSE pos

RECURSIVE FirstBad(_, _, _, _)
\* the first character from position i on that is not in legal, "" if none
FirstBad(str, len, i, legal) ==
  IF i >= len THEN ""
  ELSE IF At(str, i) \in legal THEN FirstBad(str, len, i + 1, legal)
  ELSE At(str, i)

RECURSIVE scanEnd(_, _, _)
\* the position of the first character a conversion does not consume
scanEnd(str, i, radix) ==
  IF At(str, i) \in RadixDigits(radix) THEN scanEnd(str, i + 1, radix) ELSE i

\* radix^n and the value of the n digits from position from, for n <= 4
RadixPow(radix, n) ==
  CASE n = 0 -> 1 [] n = 1 -> radix [] n = 2 -> radix * radix
    [] n = 3 -> radix * radix * radix [] n = 4 -> radix * radix * radix * radix

ChunkVal(str, from, n, radix) ==
  LET dv(k) == IF k < n THEN DigitVal(At(str, from + k)) * RadixPow(radix, n - 1 - k)
               ELSE 0
  IN dv(0) + dv(1) + dv(2) + dv(3)

RECURSIVE scanDigits(_, _, _, _)
\* the digits from position start up to position i, accumulated four at a
\* time in 12 bytes, and whether the value ever needed more than the low 8
scanDigits(str, start, i, radix) ==
  IF i <= start THEN [acc |-> Bytes(0, 12), over |-> FALSE]
  ELSE LET n == IF i - start >= 4 THEN 4 ELSE i - start
           prev == scanDigits(str, start, i - n, radix)
           m == AddC(MulByte(prev.acc, RadixPow(radix, n), 0),
                     Bytes(ChunkVal(str, i - n, n, radix), 12), 0)
       IN [acc |-> m,
           over |-> prev.over \/ m[9] # 0 \/ m[10] # 0 \/ m[11] # 0 \/ m[12] # 0]

\* sscanf(str + start, "%" SCNo64 / SCNu64 / SCNd64 / SCNx64, &val): the
\* number of items converted and the value stored.  A value that does not
\* fit the type is undefined behaviour: the library either saturates (and
\* sets errno) or keeps the low 64 bits.
sscanf(str, start, radix, signed, ub) ==
  LET end == scanEnd(str, start, radix)
      r == scanDigits(str, start, end, radix)
      low == Narrow(r.acc, 8)
      over == r.over \/ (signed /\ IsNeg(low))
  IN [items |-> IF end > start THEN 1 ELSE IF At(str, start) = NUL THEN 0 - 1 ELSE 0,
      val |-> IF over /\ ub = "saturate"
                THEN (IF signed THEN [i \in 1..8 |-> IF i = 8 THEN 127 ELSE 255]
                      ELSE [i \in 1..8 |-> 255])
                ELSE low,
      erange |-> over /\ ub = "saturate"]

RECURSIVE DivSmall(_, _, _)
\* w divided by the small number d, from the most significant byte down
DivSmall(w, d, rem) ==
  IF w = <<>> THEN [q |-> <<>>, r |-> rem]
  ELSE LET n == Len(w)
           cur == rem * 256 + w[n]
           rest == DivSmall(SubSeq(w, 1, n - 1), d, cur % d)
       IN [q |-> Append(rest.q, cur \div d), r |-> rest.r]

RECURSIVE RenderNZ(_, _)
RenderNZ(w, radix) ==
  IF w = [i \in 1..Len(w) |-> 0] THEN <<>>
  ELSE LET d == DivSmall(w, radix, 0) IN Append(RenderNZ(d.q, radix), DigitChar(d.r))

\* the unsigned value w written in the radix, without prefix
RenderU(w, radix) ==
  IF w = [i \in 1..Len(w) |-> 0] THEN <<"0">> ELSE RenderNZ(w, radix)

\* snprintf(checkStr, size, "%" SCNu64, val): at most size-1 characters
snprintf(size, w) ==
  LET r == RenderU(w, 10) IN SubSeq(r, 1, IF Len(r) < size - 1 THEN Len(r) ELSE size - 1)

OverflowErr(str) == Err("Integer literal overflow", "", "64-bit unsigned integer", str)

\* bit k of val when the loop below has run to the end: every iteration
\* shifts val left by one and puts the digit str[i] into bit 0, so the digit
\* at position len-1-k ends in bit k, and digits shifted past bit 63 are lost
binBit(str, startPos, len, k) ==
  IF len - 1 - k >= startPos /\ At(str, len - 1 - k) = "1" THEN 1 ELSE 0

\* for (i = startPos; i < len; i++) { val <<= 1; switch (str[i]) ... }:
\* the character of the default case that ended the loop, or else val
binLoop(str, startPos, len) ==
  [bad |-> FirstBad(str, len, startPos, {"0", "1"}),
   val |-> [j \in 1..8 |->
              binBit(str, startPos, len, 8 * j - 8)
              + 2 * binBit(str, startPos, len, 8 * j - 7)
              + 4 * binBit(str, startPos, len, 8 * j - 6)
              + 8 * binBit(str, startPos, len, 8 * j - 5)
              + 16 * binBit(str, startPos, len, 8 * j - 4)
              + 32 * binBit(str, startPos, len, 8 * j - 3)
              + 64 * binBit(str, startPos, len, 8 * j - 2)
              + 128 * binBit(str, startPos, len, 8 * j - 1)]]

\* binStr2uint64 with the length limit one bit short
binStr2uint64_Limit63(str, len, err, en) ==
  IF ~(At(str, 0) = "0" /\ At(str, 1) \in {"b", "B"}) \/ stringContainsZeroBytes(str, len)
    THEN ParseAbort(err, en)
  ELSE IF ~(len >= 3) THEN ParseAbort(err, en)
  ELSE LET startPos == SkipChar(str, len, "0", 2) IN
  IF len - startPos > 63 THEN ParseFail(OverflowErr(str), en)
  ELSE LET r == binLoop(str, startPos, len) IN
  IF r.bad # "" THEN ParseFail(Err("illegal character", r.bad, "binary", <<>>), en)
  ELSE ParseOk(r.val, err, en)

binStr2uint64(str, len, err, en) ==
  IF ~(At(str, 0) = "0" /\ At(str, 1) \in {"b", "B"}) \/ stringContainsZeroBytes(str, len)
    THEN ParseAbort(err, en)
  ELSE IF ~(len >= 3) THEN ParseAbort(err, en)
  ELSE LET startPos == SkipChar(str, len, "0", 2) IN
  IF len - startPos > 64 THEN ParseFail(OverflowErr(str), en)
  ELSE LET r == binLoop(str, startPos, len) IN
  IF r.bad # "" THEN ParseFail(Err("illegal character", r.bad, "binary", <<>>), en)
  ELSE ParseOk(r.val, err, en)

\* the characters octStr2uint64 lets through: '0' <= str[i] && str[i] <= '8'
OctAccepted == {"0", "1", "2", "3", "4", "5", "6", "7", "8"}

\* octStr2uint64 without the test of the leading digit
octStr2uint64_NoLead(str, len, err, en, ub) ==
  IF ~(At(str, 0) = "0" /\ At(str, 1) \in {"o", "O"}) \/ stringContainsZeroBytes(str, len)
    THEN ParseAbort(err, en)
  ELSE LET startPos == SkipChar(str, len, "0", 2) IN
  IF len - startPos > 22 THEN ParseFail(OverflowErr(str), en)
  ELSE LET bad == FirstBad(str, len, startPos, OctAccepted) IN
  IF bad # "" THEN ParseFail(Err("illegal character", bad, "octal", <<>>), en)
  ELSE LET sc == sscanf(str, startPos, 8, FALSE, ub)
           en2 == IF sc.erange THEN "ERANGE" ELSE en IN
  IF sc.items # 1 THEN ParseFail(Err("error converting", "", "octal", <<>>), en2)
  ELSE ParseOk(sc.val, err, en2)

octStr2uint64(str, len, err, en, ub) ==
  IF ~(At(str, 0) = "0" /\ At(str, 1) \in {"o", "O"}) \/ stringContainsZeroBytes(str, len)
    THEN ParseAbort(err, en)
  ELSE LET startPos == SkipChar(str, len, "0", 2) IN
  IF len - startPos > 22 \/ (len - startPos = 22 /\ At(str, startPos) # "1")
    THEN ParseFail(OverflowErr(str), en)
  ELSE LET bad == FirstBad(str, len, startPos, OctAccepted) IN
  IF bad # "" THEN ParseFail(Err("illegal character", bad, "octal", <<>>), en)
  ELSE LET sc == sscanf(str, startPos, 8, FALSE, ub)
           en2 == IF sc.erange THEN "ERANGE" ELSE en IN
  IF sc.items # 1 THEN ParseFail(Err("error converting", "", "octal", <<>>), en2)
  ELSE ParseOk(sc.val, err, en2)

DecDigits == {"0", "1", "2", "3", "4", "5", "6", "7", "8", "9"}

\* the value written as a signed number
RenderS(w) == IF IsNeg(w) THEN <<"-">> \o RenderU(WNeg(w), 10) ELSE RenderU(w, 10)

\* decStr2uint64 with the check string formatted as a signed number
decStr2uint64_Signed(str, len, err, en, ub) ==
  IF At(str, 0) = NUL \/ stringContainsZeroBytes(str, len) THEN ParseAbort(err, en)
  ELSE IF ~(len >= 1) THEN ParseAbort(err, en)
  ELSE LET startPos == SkipChar(str, len, "0", 0)
           bad == FirstBad(str, len, startPos, DecDigits) IN
  IF bad # "" THEN ParseFail(Err("illegal character", bad, "decimal", <<>>), en)
  ELSE LET sc == sscanf(str, startPos, 10, FALSE, ub)
           en2 == IF sc.erange THEN "ERANGE" ELSE en IN
  IF sc.items # 1 THEN ParseFail(Err("error converting", "", "decimal", <<>>), en2)
  ELSE IF SubSeq(str, startPos + 1, len) # RenderS(sc.val)
    THEN ParseFail(OverflowErr(str), en2)
  ELSE ParseOk(sc.val, err, en2)

decStr2uint64(str, len, err, en, ub) ==
  IF At(str, 0) = NUL \/ stringContainsZeroBytes(str, len) THEN ParseAbort(err, en)
  ELSE IF ~(len >= 1) THEN ParseAbort(err, en)
  ELSE LET startPos == SkipChar(str, len, "0", 0)
           bad == FirstBad(str, len, startPos, DecDigits) IN
  IF bad # "" THEN ParseFail(Err("illegal character", bad, "decimal", <<>>), en)
  ELSE LET sc == sscanf(str, startPos, 10, FALSE, ub)
           en2 == IF sc.erange THEN "ERANGE" ELSE en IN
  IF sc.items # 1 THEN ParseFail(Err("error converting", "", "decimal", <<>>), en2)
  ELSE IF SubSeq(str, startPos + 1, len) # snprintf(len + 1, sc.val)
    THEN ParseFail(OverflowErr(str), en2)
  ELSE ParseOk(sc.val, err, en2)

\* decStr2int64 with any number of leading '-' meaning one negation
decStr2int64_OneSign(str, len, err, en, ub) ==
  IF At(str, 0) = NUL \/ stringContainsZeroBytes(str, len) THEN ParseAbort(err, en)
  ELSE IF ~(len >= 1) THEN ParseAbort(err, en)
  ELSE LET signEnd == SkipChar(str, len, "-", 0)
           negate == signEnd > 0
           startPos == SkipChar(str, len, "0", signEnd)
           bad == FirstBad(str, len, startPos, DecDigits) IN
  IF bad # "" THEN ParseFail(Err("illegal character", bad, "decimal", <<>>), en)
  ELSE LET sc == sscanf(str, startPos, 10, TRUE, ub)
           en2 == IF sc.erange THEN "ERANGE" ELSE en IN
  IF sc.items # 1 THEN ParseFail(Err("error converting", "", "decimal", <<>>), en2)
  ELSE IF SubSeq(str, startPos + 1, len) # snprintf(len + 1, sc.val)
    THEN ParseFail(OverflowErr(str), en2)
  ELSE ParseOk(IF negate THEN WNeg(sc.val) ELSE sc.val, err, en2)

\* negate flips once for each '-' skipped
decStr2int64(str, len, err, en, ub) ==
  IF At(str, 0) = NUL \/ stringContainsZeroBytes(str, len) THEN ParseAbort(err, en)
  ELSE IF ~(len >= 1) THEN ParseAbort(err, en)
  ELSE LET signEnd == SkipChar(str, len, "-", 0)
           negate == signEnd % 2 = 1
           startPos == SkipChar(str, len, "0", signEnd)
           bad == FirstBad(str, len, startPos, DecDigits) IN
  IF bad # "" THEN ParseFail(Err("illegal character", bad, "decimal", <<>>), en)
  ELSE LET sc == sscanf(str, startPos, 10, TRUE, ub)
           en2 == IF sc.erange THEN "ERANGE" ELSE en IN
  IF sc.items # 1 THEN ParseFail(Err("error converting", "", "decimal", <<>>), en2)
  ELSE IF SubSeq(str, startPos + 1, len) # snprintf(len + 1, sc.val)
    THEN ParseFail(OverflowErr(str), en2)
  ELSE ParseOk(IF negate THEN WNeg(sc.val) ELSE sc.val, err, en2)

\* hexStr2uint64 with the character check before the length check
hexStr2uint64_CharsFirst(str, len, err, en, ub) ==
  IF ~(At(str, 0) = "0" /\ At(str, 1) \in {"x", "X"}) \/ stringContainsZeroBytes(str, len)
    THEN ParseAbort(err, en)
  ELSE IF ~(len >= 3) THEN ParseAbort(err, en)
  ELSE LET startPos == SkipChar(str, len, "0", 2)
           bad == FirstBad(str, len, startPos, RadixDigits(16)) IN
  IF bad # "" THEN ParseFail(Err("illegal character", bad, "hexadecimal", <<>>), en)
  ELSE IF len - startPos > 16 THEN ParseFail(OverflowErr(str), en)
  ELSE LET sc == sscanf(str, 2, 16, FALSE, ub)
           en2 == IF sc.erange THEN "ERANGE" ELSE en IN
  IF sc.items # 1 THEN ParseFail(Err("error converting", "", "hexadecimal", <<>>), en2)
  ELSE ParseOk(sc.val, err, en2)

\* the conversion reads from str+2, the leading zeros included
hexStr2uint64(str, len, err, en, ub) ==
  IF ~(At(str, 0) = "0" /\ At(str, 1) \in {"x", "X"}) \/ stringContainsZeroBytes(str, len)
    THEN ParseAbort(err, en)
  ELSE IF ~(len >= 3) THEN ParseAbort(err, en)
  ELSE LET startPos == SkipChar(str, len, "0", 2) IN
  IF len - startPos > 16 THEN ParseFail(OverflowErr(str), en)
  ELSE LET bad == FirstBad(str, len, startPos, RadixDigits(16)) IN
  IF bad # "" THEN ParseFail(Err("illegal character", bad, "hexadecimal", <<>>), en)
  ELSE LET sc == sscanf(str, 2, 16, FALSE, ub)
           en2 == IF sc.erange THEN "ERANGE" ELSE en IN
  IF sc.items # 1 THEN ParseFail(Err("error converting", "", "hexadecimal", <<>>), en2)
  ELSE ParseOk(sc.val, err, en2)

\* a double is named by a token: "nan", "inf", "-inf", "0.0", "-0.0",
\* "DBL_MIN", "-DBL_MIN", "DBL_MAX", "1.5", "-1.5"
fabs(x) ==
  CASE x = "-inf" -> "inf" [] x = "-0.0" -> "0.0" [] x = "-DBL_MIN" -> "DBL_MIN"
    [] x = "-1.5" -> "1.5" [] OTHER -> x

Conv(num, used, erange) == [num |-> num, used |-> used, erange |-> erange]

DblMinText ==
  <<"2", ".", "2", "2", "5", "0", "7", "3", "8", "5", "8", "5", "0", "7", "2", "0",
    "1", "4", "e", "-", "3", "0", "8">>

DblMaxText ==
  <<"1", ".", "7", "9", "7", "6", "9", "3", "1", "3", "4", "8", "6", "2", "3", "1",
    "5", "7", "e", "3", "0", "8">>

\* strtod(str, &endptr) on the texts of the model: the double, the number
\* of characters consumed and whether errno is set to ERANGE.  On underflow
\* the library returns either the smallest normal number or zero.
strtod(str, uf) ==
  CASE str = <<"1", ".", "5">> -> Conv("1.5", 3, FALSE)
    [] str = <<"-", "1", ".", "5">> -> Conv("-1.5", 4, FALSE)
    [] str = <<"1", ".", "5", "x">> -> Conv("1.5", 3, FALSE)
    [] str = <<"0">> -> Conv("0.0", 1, FALSE)
    [] str = <<"0", ".", "0">> -> Conv("0.0", 3, FALSE)
    [] str = <<"-", "0", ".", "0">> -> Conv("-0.0", 4, FALSE)
    [] str = <<"a", "b", "c">> -> Conv("0.0", 0, FALSE)
    [] str = <<".">> -> Conv("0.0", 0, FALSE)
    [] str = <<"-">> -> Conv("0.0", 0, FALSE)
    [] str = <<"n", "a", "n">> -> Conv("nan", 3, FALSE)
    [] str = <<"i", "n", "f">> -> Conv("inf", 3, FALSE)
    [] str = <<"-", "i", "n", "f">> -> Conv("-inf", 4, FALSE)
    [] str = <<"1", "e", "9", "9", "9">> -> Conv("inf", 5, TRUE)
    [] str = <<"-", "1", "e", "9", "9", "9">> -> Conv("-inf", 6, TRUE)
    [] str = <<"1", "e", "-", "9", "9", "9">> ->
         Conv(IF uf = "min" THEN "DBL_MIN" ELSE "0.0", 6, TRUE)
    [] str = <<"-", "1", "e", "-", "9", "9", "9">> ->
         Conv(IF uf = "min" THEN "-DBL_MIN" ELSE "-0.0", 7, TRUE)
    [] str = DblMinText -> Conv("DBL_MIN", Len(str), FALSE)
    [] str = <<"-">> \o DblMinText -> Conv("-DBL_MIN", Len(str), FALSE)
    [] str = DblMaxText -> Conv("DBL_MAX", Len(str), FALSE)

DoubleTexts ==
  {<<"1", ".", "5">>, <<"-", "1", ".", "5">>, <<"1", ".", "5", "x">>, <<"0">>,
   <<"0", ".", "0">>, <<"-", "0", ".", "0">>, <<"a", "b", "c">>, <<".">>, <<"-">>,
   <<"n", "a", "n">>, <<"i", "n", "f">>, <<"-", "i", "n", "f">>,
   <<"1", "e", "9", "9", "9">>, <<"-", "1", "e", "9", "9", "9">>,
   <<"1", "e", "-", "9", "9", "9">>, <<"-", "1", "e", "-", "9", "9", "9">>,
   DblMinText, <<"-">> \o DblMinText, DblMaxText}

\* errno is read as strtod and earlier library calls left it
str2double(str, len, err, en, uf) ==
  IF At(str, 0) = NUL \/ stringContainsZeroBytes(str, len) THEN ParseAbort(err, en)
  ELSE LET c == strtod(str, uf)
           en2 == IF c.erange THEN "ERANGE" ELSE en
           mag == fabs(c.num) IN
  IF c.num \in {"nan", "inf", "-inf"} THEN PRes("ok", Bytes(0, 8), c.num, err, en2)
  ELSE IF (mag = "inf" \/ mag = "DBL_MIN") /\ en2 = "ERANGE"
    THEN ParseFail(Err("overflow or underflow", "", "floating point", <<>>), en2)
  ELSE IF mag = "0.0" /\ c.used = 0
    THEN ParseFail(Err("error", "", "floating point", <<>>), en2)
  ELSE PRes("ok", Bytes(0, 8), c.num, err, en2)

(***************************************************************************)
(* The parser specification: the lexer calls the parsers on the literals   *)
(* below.  The integer parsers read nothing but their arguments, so their  *)
(* calls are taken from the initial state only; str2double reads errno,    *)
(* so it is called after any other call that returned.                     *)
(***************************************************************************)
\* most redundant leading zeros of a literal
MaxZeros == 2

Rep(c, n) == [i \in 1..n |-> c]

\* the digit string of a sequence of digit values
D(ns) == [i \in 1..Len(ns) |-> DigitChar(ns[i])]

Zeros == {Rep("0", z) : z \in 0..MaxZeros}

BinBodies ==
  {Rep("1", n) : n \in {1, 2, 3, 63, 64, 65}}
    \cup {<<"1">> \o Rep("0", n) : n \in {1, 2, 62, 63, 64}}
    \cup {<<>>, <<"0">>, <<"1", "0", "1">>, <<"1", "1", "0">>}
    \cup {<<"2">>, <<"1", "2">>, <<"1", "z", "1">>, Rep("1", 63) \o <<"2">>,
          Rep("1", 64) \o <<"2">>, <<"2">> \o Rep("1", 64)}

OctBodies ==
  {Rep("7", n) : n \in {1, 2, 21, 22, 23}}
    \cup {<<"1">> \o Rep("7", n) : n \in {1, 20, 21, 22}}
    \cup {<<"1">> \o Rep("0", n) : n \in {1, 20, 21}}
    \cup {<<>>, <<"0">>, <<"2">> \o Rep("0", 21), <<"1", "2", "3">>}
    \cup {<<"8">>, <<"1", "8">>, <<"7", "8", "1">>, <<"1">> \o Rep("7", 20) \o <<"8">>}
    \cup {<<"9">>, <<"1", "9">>, <<"1", "z">>, <<"1">> \o Rep("7", 20) \o <<"9">>,
          Rep("7", 22) \o <<"9">>, <<"9">> \o Rep("7", 22)}

HexBodies ==
  {Rep("F", n) : n \in {1, 2, 15, 16, 17}}
    \cup {Rep("f", 16), Rep("7", 16), <<"8">> \o Rep("0", 15)}
    \cup {<<"1">> \o Rep("0", n) : n \in {1, 15, 16}}
    \cup {<<>>, <<"0">>, <<"0", "0">>, <<"1", "a", "B", "9">>,
          <<"d", "e", "a", "d", "B", "E", "E", "F">>}
    \cup {<<"g">>, <<"1", "g">>, <<"x", "1">>, Rep("F", 15) \o <<"g">>,
          Rep("F", 16) \o <<"g">>, <<"G">> \o Rep("F", 16)}

\* 2^64-1, 2^64, 2^63-1 and 2^63 in decimal
DecMaxU == D(<<1, 8, 4, 4, 6, 7, 4, 4, 0, 7, 3, 7, 0, 9, 5, 5, 1, 6, 1, 5>>)
DecOverU == D(<<1, 8, 4, 4, 6, 7, 4, 4, 0, 7, 3, 7, 0, 9, 5, 5, 1, 6, 1, 6>>)
DecMaxS == D(<<9, 2, 2, 3, 3, 7, 2, 0, 3, 6, 8, 5, 4, 7, 7, 5, 8, 0, 7>>)
DecOverS == D(<<9, 2, 2, 3, 3, 7, 2, 0, 3, 6, 8, 5, 4, 7, 7, 5, 8, 0, 8>>)

DecBodies ==
  {<<"0">>, <<"7">>, <<"4", "2">>, <<"1", "0", "0">>, <<"6", "5", "5", "3", "6">>,
   DecMaxU, DecOverU, DecMaxS, DecOverS, Rep("9", 19), Rep("9", 20),
   <<"1">> \o Rep("0", 19), <<"1">> \o Rep("0", 20), DecMaxU \o <<"0">>}
    \cup {<<"a">>, <<"1", "a">>, <<"5", "-", "3">>, <<"1", " ">>, DecOverU \o <<"x">>,
          <<"x">> \o DecOverU}

BinLiterals ==
  {<<"0", p>> \o z \o b : p \in {"b", "B"}, z \in Zeros, b \in BinBodies}
    \cup {<<"0", "x", "1">>, <<"1", "0", "1">>}

OctLiterals ==
  {<<"0", p>> \o z \o b : p \in {"o", "O"}, z \in Zeros, b \in OctBodies}
    \cup {<<"0", "b", "1">>, <<"1", "7">>}

HexLiterals ==
  {<<"0", p>> \o z \o b : p \in {"x", "X"}, z \in Zeros, b \in HexBodies}
    \cup {<<"0", "o", "1">>, <<"f", "f">>}

DecLiterals == {z \o b : z \in Zeros, b \in DecBodies} \cup {<<"-", "5">>} \cup {<<>>}

SignedLiterals ==
  {Rep("-", k) \o z \o b : k \in 0..(MaxZeros + 1), z \in Zeros,
                           b \in DecBodies \cup {<<>>, <<"0", "-", "5">>}}

\* the error string the caller passes in: empty, or left from before
CallerErrs == {Err("", "", "", <<>>), Err("earlier message", "", "", <<>>)}

\* what the C library does where the language leaves it open
ScanOverflow == {"saturate", "wrap"}
Underflow == {"min", "zero"}

\* one call of a parser with the text and its length
Parse(fn, str, err, r) ==
  /\ last' = [kind |-> "parse", fn |-> fn, str |-> str, errIn |-> err,
              errnoIn |-> errno, status |-> r.status, val |-> r.val,
              num |-> r.num, err |-> r.err]
  /\ errno' = r.errno
  /\ UNCHANGED <<store, hist, inp, ncalls>>

BinStep ==
  /\ last.kind = "none"
  /\ \E str \in BinLiterals, err \in CallerErrs :
       Parse("binStr2uint64", str, err, binStr2uint64(str, Len(str), err, errno))

OctStep ==
  /\ last.kind = "none"
  /\ \E str \in OctLiterals, err \in CallerErrs, ub \in ScanOverflow :
       Parse("octStr2uint64", str, err, octStr2uint64(str, Len(str), err, errno, ub))

DecStep ==
  /\ last.kind = "none"
  /\ \E str \in DecLiterals, err \in CallerErrs, ub \in ScanOverflow :
       Parse("decStr2uint64", str, err, decStr2uint64(str, Len(str), err, errno, ub))

SignedStep ==
  /\ last.kind = "none"
  /\ \E str \in SignedLiterals, err \in CallerErrs, ub \in ScanOverflow :
       Parse("decStr2int64", str, err, decStr2int64(str, Len(str), err, errno, ub))

HexStep ==
  /\ last.kind = "none"
  /\ \E str \in HexLiterals, err \in CallerErrs, ub \in ScanOverflow :
       Parse("hexStr2uint64", str, err, hexStr2uint64(str, Len(str), err, errno, ub))

DoubleStep ==
  /\ ~(last.kind = "parse" /\ last.status = "assert")
  /\ \E str \in DoubleTexts, err \in CallerErrs, uf \in Underflow :
       Parse("str2double", str, err, str2double(str, Len(str), err, errno, uf))

NextParse == BinStep \/ OctStep \/ DecStep \/ SignedStep \/ HexStep \/ DoubleStep

SpecParse == Init /\ [][NextParse]_vars

(***************************************************************************)
(* The conversion specification: paramToImmediate on one (Param, Type)     *)
(* pair, then immediateToParam on the Immediate it returned.  The pair is  *)
(* any Param, or none, with any Type, as fold and handleParamCast pass     *)
(* them on without a check of their own.                                   *)
(***************************************************************************)
ConvParams ==
  {NoParam, P("BoolParam", B(TRUE)), P("BoolParam", B(FALSE)),
   P("IntParam", I64(0)), P("IntParam", I64(5)), P("IntParam", I64(0 - 1)),
   P("IntParam", I64(200)), P("IntParam", I64(300)), P("IntParam", MinS(8)),
   P("IntParam", MaxS(8)),
   P("UintParam", I64(5)), P("UintParam", I64(200)), P("UintParam", I64(65536)),
   P("UintParam", MaxU(8)),
   P("RealParam", R(0)), P("RealParam", R(1)), P("RealParam", R(0 - 3)),
   P("RealParam", R(16777217)),
   P("ComplexParam", <<1, 0 - 2>>), P("ComplexParam", <<16777217, 0>>),
   P("StringParam", <<>>), P("StringParam", <<104, 105>>),
   P("EnumParam", <<3, 114>>), P("NoneParam", <<>>)}

\* the types of the model, and types of a kind or width the conversion
\* has no case for
ConvTypes ==
  SupportedTypes \cup {NothingTy, RecordTy, UnknownTy, Ty("int", 128), Ty("uint", 24),
                       Ty("real", 16), Ty("imag", 128), Ty("complex", 32)}

\* Immediates with a discriminant no conversion writes
RawImmediates ==
  {Imm("none", "none", "none", "none", <<>>),
   Imm("NUM_KIND_INT", "none", "none", "v_int", <<5>>),
   Imm("NUM_KIND_UINT", "none", "none", "v_uint", <<5>>),
   Imm("NUM_KIND_REAL", "none", "none", "v_float", R(1)),
   Imm("NUM_KIND_IMAG", "none", "none", "v_float", R(1)),
   Imm("NUM_KIND_COMPLEX", "none", "none", "v_complex128", <<1, 0>>),
   Imm("CONST_KIND_STRING", "none", "none", "v_string", <<104>>)}

InitConv ==
  /\ \E p \in ConvParams, t \in ConvTypes :
       /\ inp = In("convert", QT("PARAM", t, p), UnknownQT)
       /\ store = [c \in Ctx |-> IF c = 1 /\ p # NoParam THEN <<p>> ELSE <<>>]
  /\ hist = {}
  /\ last = NoCall
  /\ ncalls = 0
  /\ errno = "none"

\* guessParamTagFromType(t), as paramToImmediate calls it for a null Param
GuessTag ==
  /\ last.kind = "none"
  /\ inp.a.param = NoParam
  /\ last' = [kind |-> "guessParamTagFromType", p |-> NoParam, t |-> inp.a.type,
              tag |-> guessParamTagFromType(inp.a.type)]
  /\ UNCHANGED <<store, hist, inp, ncalls, errno>>

\* paramToImmediate(p, t)
ToImmediate ==
  LET r == paramToImmediate(inp.a.param, inp.a.type) IN
  /\ last.kind \in {"none", "guessParamTagFromType"}
  /\ last' = [kind |-> "paramToImmediate", p |-> inp.a.param, t |-> inp.a.type,
              ok |-> r.ok, imm |-> r.imm]
  /\ UNCHANGED <<store, hist, inp, ncalls, errno>>

\* immediateToParam(context, imm)
FromImm(imm) ==
  LET pr == immediateToParam(store[1], imm) IN
  /\ store' = [store EXCEPT ![1] = pr.st]
  /\ last' = [kind |-> "immediateToParam", p |-> inp.a.param, t |-> inp.a.type,
              imm |-> imm, ok |-> pr.ok, inst |-> pr.inst, type |-> pr.type,
              created |-> pr.created]
  /\ UNCHANGED <<hist, inp, ncalls, errno>>

\* the Immediate just produced is converted back
FromImmediate ==
  /\ last.kind = "paramToImmediate" /\ last.ok
  /\ FromImm(last.imm)

\* immediateToParam on an Immediate that no conversion produced
FromRaw ==
  /\ last.kind = "none"
  /\ \E imm \in RawImmediates : FromImm(imm)

NextConv == GuessTag \/ ToImmediate \/ FromImmediate \/ FromRaw

SpecConv == InitConv /\ [][NextConv]_vars

(***************************************************************************)
(* The repeated-call specification: one fold call on context 1 is made     *)
(* again and again, with getter calls and other folds on the same context  *)
(* in between.  The pending call remembers what its first run returned.    *)
(***************************************************************************)
RefoldInputs ==
  {In("P_prim_add", IntQT(8, <<5>>), IntQT(8, <<100>>)),
   In("P_prim_add", IntQT(8, <<100>>), IntQT(8, <<100>>)),
   In("P_prim_less", IntQT(8, <<5>>), IntQT(8, <<100>>)),
   In("P_prim_plus", IntQT(8, <<5>>), UnknownQT),
   In("P_prim_add", UintQT(64, I64(200)), UintQT(64, I64(100))),
   In("P_prim_add", QT("PARAM", Ty("real", 64), P("RealParam", R(1))),
                    QT("PARAM", Ty("real", 64), P("RealParam", R(2)))),
   In("P_prim_lor", QT("PARAM", BoolTy, P("BoolParam", B(FALSE))),
                    QT("PARAM", BoolTy, P("BoolParam", B(TRUE)))),
   In("PRIM_CAST", IntQT(64, I64(200)), QT("TYPE", Ty("int", 8), NoParam)),
   In("PRIM_CAST", IntQT(64, I64(5)), QT("TYPE", Ty("real", 32), NoParam)),
   In("PRIM_CAST", IntQT(8, <<5>>), QT("TYPE", Ty("imag", 64), NoParam)),
   In("PRIM_CAST", QT("PARAM", StringTy, P("StringParam", <<97>>)),
                   QT("TYPE", BytesTy, NoParam)),
   In("PRIM_MOVE", IntQT(8, <<5>>), IntQT(8, <<1>>))}

\* the operator of the folds made in between
BetweenOps == {"P_prim_minus"}

\* what the first run of the pending call returned
NoFirst == [n |-> 0, status |-> "none", inst |-> 0, type |-> NullTy]

InitRefold ==
  /\ \E x \in RefoldInputs :
       /\ InDomain(x.op, x.a, x.b) = TRUE
       /\ inp = [op |-> x.op, a |-> x.a, b |-> x.b, first |-> NoFirst]
       /\ store = [c \in Ctx |-> IF c = 1 THEN Seed(x) ELSE <<>>]
  /\ hist = {}
  /\ last = NoCall
  /\ ncalls = 0
  /\ errno = "none"

\* Param::fold(context, op, a, b) with the pending operator and operands
Refold ==
  LET r == fold(store[1], inp.op, inp.a, inp.b) IN
  /\ ncalls < MaxCalls
  /\ store' = [store EXCEPT ![1] = r.st]
  /\ hist' = IF r.status = "ok"
              THEN hist \cup {Issued(1, r.st[r.inst], r.inst, r.type)} ELSE hist
  /\ last' = Call("fold", 1, inp.op, inp.a, inp.b, r, <<0, 0>>)
  /\ inp' = [inp EXCEPT !.first =
               IF @.n = 0
                 THEN [n |-> 1, status |-> r.status, inst |-> r.inst, type |-> r.type]
                 ELSE [@ EXCEPT !.n = 2]]
  /\ ncalls' = ncalls + 1
  /\ UNCHANGED errno

\* a getter call or another fold on the same context
Between ==
  \/ \E p \in GetValues : Get(1, p)
  \/ \E op \in BetweenOps : \E a \in Operands(store[1]) : Fold(1, op, a, UnknownQT)

NextRefold == Refold \/ Between

SpecRefold == InitRefold /\ [][NextRefold]_vars

(***************************************************************************)
(* BasicClassType::isSubtypeOf.  Class types are named 1, 2, ..; 0 is the  *)
(* null pointer.  A class type is constructed from its parent and from the *)
(* type it was instantiated from, so both exist before it: they have       *)
(* smaller names.  The call is run one loop iteration at a time.           *)
(***************************************************************************)
Classes == {1, 2, 3, 4}

Earlier(c) == {d \in Classes \cup {0} : d < c}

\* the class types of a program: parentClassType() and instantiatedFrom()
\* of each
Hierarchies ==
  {h \in [parent : [Classes -> Classes \cup {0}],
          inst : [Classes -> Classes \cup {0}]] :
     \A c \in Classes : h.parent[c] \in Earlier(c) /\ h.inst[c] \in Earlier(c)}

parentClassType(h, t) == h.parent[t]
instantiatedFrom(h, t) == h.inst[t]

\* the loop body with converts set on every match
isSubtypeOfBody_ConvertsAlways(h, this, parentType, f) ==
  IF f.t = parentType
    THEN [f EXCEPT !.converts = TRUE, !.ret = TRUE, !.pc = "done"]
  ELSE IF instantiatedFrom(h, f.t) = parentType
    THEN [f EXCEPT !.converts = TRUE, !.instantiates = TRUE,
                   !.ret = TRUE, !.pc = "done"]
  ELSE [f EXCEPT !.t = parentClassType(h, f.t), !.iters = @ + 1]

\* one iteration of the for loop on the frame f (t is not null): the two
\* tests with their returns, or else t = t->parentClassType()
isSubtypeOfBody(h, this, parentType, f) ==
  IF f.t = parentType
    THEN [f EXCEPT !.converts = (f.t # this) \/ @, !.ret = TRUE, !.pc = "done"]
  ELSE IF instantiatedFrom(h, f.t) = parentType
    THEN [f EXCEPT !.converts = (f.t # this) \/ @, !.instantiates = TRUE,
                   !.ret = TRUE, !.pc = "done"]
  ELSE [f EXCEPT !.t = parentClassType(h, f.t), !.iters = @ + 1]

\* the caller's class types, receiver, argument and out-flags
InitClass ==
  /\ \E h \in Hierarchies, this \in Classes, parentType \in Classes \cup {0},
        converts \in BOOLEAN, instantiates \in BOOLEAN :
       inp = [op |-> "isSubtypeOf", a |-> h,
              b |-> [this |-> this, parentType |-> parentType,
                     converts |-> converts, instantiates |-> instantiates]]
  /\ store = [c \in Ctx |-> <<>>]
  /\ hist = {}
  /\ last = NoCall
  /\ ncalls = 0
  /\ errno = "none"

\* the call: assert(parentType != nullptr), then t = this
Enter ==
  /\ last.kind = "none"
  /\ last' = [kind |-> "isSubtypeOf",
              pc |-> IF inp.b.parentType = 0 THEN "assert" ELSE "loop",
              t |-> inp.b.this, ret |-> FALSE, converts |-> inp.b.converts,
              instantiates |-> inp.b.instantiates, iters |-> 0]
  /\ UNCHANGED <<store, hist, inp, ncalls, errno>>

\* t != nullptr: the loop body
LoopBody ==
  /\ last.kind = "isSubtypeOf" /\ last.pc = "loop" /\ last.t # 0
  /\ last' = isSubtypeOfBody(inp.a, inp.b.this, inp.b.parentType, last)
  /\ UNCHANGED <<store, hist, inp, ncalls, errno>>

\* t == nullptr: return false
LoopExit ==
  /\ last.kind = "isSubtypeOf" /\ last.pc = "loop" /\ last.t = 0
  /\ last' = [last EXCEPT !.ret = FALSE, !.pc = "done"]
  /\ UNCHANGED <<store, hist, inp, ncalls, errno>>

NextClass == Enter \/ LoopBody \/ LoopExit

\* the call is sequential code: a step that can be taken is taken
SpecClass == InitClass /\ [][NextClass]_vars /\ WF_vars(NextClass)

(***************************************************************************)
(* Properties.                                                             *)
(***************************************************************************)
\* the Param an instance of context c holds
ParamOf(c, i) == store[c][i]

\* C1: within one context every getter result for the same kind and value
\* is the identical instance, whatever calls came in between and whatever
\* Type the result was paired with.
C1_SameInstance ==
  \A e1 \in hist : \A e2 \in hist :
    (e1.ctx = e2.ctx /\ e1.param = e2.param) => e1.inst = e2.inst

\* the IntParam 5 was returned by a getter, by an 8-bit fold and by a
\* 64-bit fold, and a getter has just returned an existing instance
C1_Witness ==
  /\ \E e1 \in hist : \E e2 \in hist : \E e3 \in hist :
       /\ e1.param = P("IntParam", I64(5)) /\ e2.param = e1.param /\ e3.param = e1.param
       /\ e1.ctx = e2.ctx /\ e1.ctx = e3.ctx
       /\ e1.type = Ty("int", 8) /\ e2.type = Ty("int", 64) /\ e3.type = NullTy
       /\ e1.inst = e2.inst /\ e1.inst = e3.inst
  /\ last.kind = "get" /\ ~last.created

\* C2: Params that two contexts return for an equal kind and value are
\* different instances that completeMatch, and a call on one context
\* leaves the Params of the other context as they were.
C2_Isolated ==
  /\ [](\A e1 \in hist : \A e2 \in hist :
          (e1.ctx # e2.ctx /\ e1.param = e2.param) =>
            /\ completeMatch(ParamOf(e1.ctx, e1.inst), ParamOf(e2.ctx, e2.inst))
            /\ <<e1.ctx, e1.inst>> # <<e2.ctx, e2.inst>>)
  /\ [][\A d \in Ctx : d # last'.ctx => store'[d] = store[d]]_vars

\* both contexts returned the IntParam 5, held at different positions,
\* and the last call was made on context 2 while context 1 holds Params
C2_Witness ==
  /\ \E e1 \in hist : \E e2 \in hist :
       /\ e1.ctx = 1 /\ e2.ctx = 2
       /\ e1.param = P("IntParam", I64(5)) /\ e2.param = e1.param
       /\ e1.inst # e2.inst
  /\ last.ctx = 2 /\ Len(store[1]) = 2

(***************************************************************************)
(* Reference arithmetic for the fold properties: exact integer arithmetic  *)
(* on small values, reduced by Bytes.                                      *)
(***************************************************************************)
RefMath(op, x, y) ==
  CASE op = "P_prim_add" -> x + y
    [] op = "P_prim_subtract" -> x - y
    [] op = "P_prim_mult" -> x * y

\* the last call folded op on two well-typed operands of one type
BinaryCall(ops, kinds) ==
  /\ last.kind = "fold" /\ last.op \in ops
  /\ last.a \in TypedOperands /\ last.b \in TypedOperands
  /\ last.a.type = last.b.type /\ last.a.type.kind \in kinds

\* the result Param of the last call
Result == ParamOf(last.ctx, last.inst)

\* results at the edge of the range, which exact arithmetic cannot reach
EdgeCases(op, signed, k, av, bv, rv) ==
  /\ (signed /\ op = "P_prim_add" /\ av = MaxS(k) /\ bv = Bytes(1, k)) => rv = MinS(k)
  /\ (signed /\ op = "P_prim_subtract" /\ av = MinS(k) /\ bv = Bytes(1, k)) => rv = MaxS(k)
  /\ (signed /\ op = "P_prim_mult" /\ av = MinS(k) /\ bv = Bytes(0 - 1, k)) => rv = MinS(k)
  /\ (signed /\ op = "P_prim_add" /\ av = MaxS(k) /\ bv = MaxS(k)) => rv = Bytes(0 - 2, k)
  /\ (~signed /\ op = "P_prim_add" /\ av = MaxU(k) /\ bv = Bytes(1, k)) => rv = ZeroBytes(k)
  /\ (~signed /\ op = "P_prim_subtract" /\ av = ZeroBytes(k) /\ bv = Bytes(1, k)) => rv = MaxU(k)
  /\ (~signed /\ op = "P_prim_mult" /\ av = MaxU(k) /\ bv = MaxU(k)) => rv = Bytes(1, k)

\* C3: an integer add, subtract or multiply on two operands of width w
\* returns a result of the same type whose value is the mathematical
\* result reduced modulo 2^w in two's complement; it never fails.
C3_Wraps ==
  BinaryCall(ArithOps, {"int", "uint"}) =>
    /\ last.status = "ok" /\ last.q = "PARAM"
    /\ last.type = last.a.type
    /\ LET k == last.a.type.width \div 8
           signed == last.a.type.kind = "int"
           av == Narrow(last.a.param.val, k)
           bv == Narrow(last.b.param.val, k)
           rv == Narrow(Result.val, k)
           x == Small(av, signed)
           y == Small(bv, signed)
       IN /\ Result.tag = (IF signed THEN "IntParam" ELSE "UintParam")
          /\ Result.val = (IF signed THEN SignExtend(rv, 8) ELSE ZeroExtend(rv, 8))
          /\ (IsSmall(av, signed) /\ IsSmall(bv, signed)
                /\ (last.op = "P_prim_mult" => (Abs(x) <= 32768 /\ Abs(y) <= 32768)))
               => rv = Bytes(RefMath(last.op, x, y), k)
          /\ Narrow(rv, 1) = Bytes(RefMath(last.op, av[1], bv[1]), 1)
          /\ EdgeCases(last.op, signed, k, av, bv, rv)

\* fold(ADD, (int8, 100), (int8, 100)) returned (int8, -56)
C3_Witness ==
  /\ last.kind = "fold" /\ last.op = "P_prim_add"
  /\ last.a = IntQT(8, <<100>>) /\ last.b = IntQT(8, <<100>>)
  /\ last.status = "ok" /\ last.type = Ty("int", 8)
  /\ Result = P("IntParam", I64(0 - 56))

\* the position of an operand's value in the order of its type
Rank(x) ==
  LET k == x.type.width \div 8
      v == Narrow(x.param.val, IF k = 0 THEN 1 ELSE k)
  IN CASE x.type.kind = "int" ->
            IF v = MinS(k) THEN 0 - 1000000
            ELSE IF v = MaxS(k) THEN 1000000 ELSE Small(v, TRUE)
       [] x.type.kind = "uint" ->
            IF v = MaxU(k) THEN 1000000 ELSE Small(v, FALSE)
       [] x.type.kind \in {"real", "imag"} -> x.param.val[1]
       [] x.type.kind = "bool" -> x.param.val[1]
       [] OTHER -> 0

RefCompare(op, x, y) ==
  CASE op = "P_prim_equal" -> x.param = y.param
    [] op = "P_prim_notequal" -> x.param # y.param
    [] op = "P_prim_less" -> Rank(x) < Rank(y)
    [] op = "P_prim_lessorequal" -> Rank(x) <= Rank(y)
    [] op = "P_prim_greater" -> Rank(x) > Rank(y)
    [] op = "P_prim_greaterorequal" -> Rank(x) >= Rank(y)

\* C5: each of the six comparison operators, on operands of any type,
\* returns the boolean type with the BoolParam holding the truth value of
\* the comparison.
C5_CompareIsBool ==
  BinaryCall(CompareOps, {"int", "uint", "real", "imag", "bool", "string",
                          "bytes", "cstring"}) =>
    /\ last.status = "ok" /\ last.q = "PARAM"
    /\ last.type = BoolTy
    /\ Result = P("BoolParam", B(RefCompare(last.op, last.a, last.b)))

\* fold(EQUAL, (real64, 1.0), (real64, 1.0)) returned (bool, true)
C5_Witness ==
  /\ last.kind = "fold" /\ last.op = "P_prim_equal"
  /\ last.a = QT("PARAM", Ty("real", 64), P("RealParam", R(1))) /\ last.b = last.a
  /\ last.type = BoolTy /\ Result = P("BoolParam", B(TRUE))

\* the low four bytes of the wide values, written out by hand
Low4(v) ==
  CASE v = I64(2147483647) -> <<255, 255, 255, 127>>
    [] v = <<0, 0, 0, 128, 0, 0, 0, 0>> -> <<0, 0, 0, 128>>
    [] v = <<0, 0, 0, 0, 1, 0, 0, 0>> -> <<0, 0, 0, 0>>
    [] v = <<255, 255, 255, 255, 0, 0, 0, 0>> -> <<255, 255, 255, 255>>
    [] v = MaxS(8) -> <<255, 255, 255, 255>>
    [] v = MinS(8) -> <<0, 0, 0, 0>>
    [] v = MaxU(8) -> <<255, 255, 255, 255>>
    [] v = SignExtend(MinS(4), 8) -> <<0, 0, 0, 128>>

\* the value of a 64-bit word that fits three bytes
Val3(v) ==
  IF FitsUnsigned(v, 3) THEN UVal(Narrow(v, 3))
  ELSE 0 - UVal(Narrow(WNeg(v), 3))

\* v reduced modulo 2^(8k), as k bytes
RefLow(v, k) ==
  IF FitsUnsigned(v, 3) \/ (FitsSigned(v, 3) /\ v # SignExtend(MinS(3), 8))
    THEN Bytes(Val3(v), k)
    ELSE SubSeq(Low4(v), 1, k)

\* the last call cast an integer to a narrower integer of the same signedness
NarrowingCast ==
  /\ last.kind = "fold" /\ last.op = "PRIM_CAST"
  /\ last.a \in CastSources /\ last.b \in CastTargets
  /\ last.a.type.kind \in {"int", "uint"}
  /\ last.b.type.kind = last.a.type.kind
  /\ last.b.type.width < last.a.type.width

\* C6: a cast of an integer to a narrower integer type of width 8, 16 or
\* 32 returns that type with the value reduced modulo 2^width (two's
\* complement for signed types).
C6_CastWraps ==
  NarrowingCast =>
    /\ last.status = "ok" /\ last.q = "PARAM"
    /\ last.type = last.b.type
    /\ LET k == last.b.type.width \div 8
           low == RefLow(last.a.param.val, k)
       IN Result = (IF last.b.type.kind = "int"
                      THEN P("IntParam", SignExtend(low, 8))
                      ELSE P("UintParam", ZeroExtend(low, 8)))

\* the 64-bit integer 200 cast to int(8) gave (int8, -56)
C6_Witness ==
  /\ last.kind = "fold" /\ last.op = "PRIM_CAST"
  /\ last.a = IntQT(64, I64(200)) /\ last.b = QT("TYPE", Ty("int", 8), NoParam)
  /\ last.type = Ty("int", 8) /\ Result = P("IntParam", I64(0 - 56))

\* C7: a cast goes through handleParamCast and the coercion only, never
\* through the allow-list or the evaluator, and for every supported
\* destination type the result has the destination's type and the Param
\* kind of that type.
C7_CastPath ==
  (/\ last.kind = "fold" /\ last.op = "PRIM_CAST"
   /\ last.a \in CastSources /\ last.b \in CastTargets
   /\ last.b.type \in SupportedTypes) =>
    /\ last.status = "ok" /\ last.q = "PARAM"
    /\ last.calls = {"handleParamCast", "coerce_immediate"}
    /\ last.type = last.b.type
    /\ Result.tag = guessParamTagFromType(last.b.type)

\* the 64-bit integer 5 cast to real(32) gave (real32, 5.0)
C7_Witness ==
  /\ last.kind = "fold" /\ last.op = "PRIM_CAST"
  /\ last.a = IntQT(64, I64(5)) /\ last.b = QT("TYPE", Ty("real", 32), NoParam)
  /\ last.type = Ty("real", 32) /\ Result = P("RealParam", R(5))
  /\ "fold_constant" \notin last.calls

\* C8: isParamOpFoldable holds for exactly the 25 allow-listed operators,
\* not for the cast, and a fold of any other non-cast operator is an
\* invariant failure that does not reach the evaluator.
C8_AllowList ==
  /\ \A op \in AllOps : isParamOpFoldable(op) <=> op \in AllowList
  /\ Cardinality(AllowList) = 25
  /\ ~isParamOpFoldable("PRIM_CAST")
  /\ (last.kind = "fold" /\ last.op \notin AllowList /\ last.op # "PRIM_CAST") =>
       /\ last.status = "assert"
       /\ "fold_constant" \notin last.calls
       /\ store[1] = Seed(inp)

\* fold(PRIM_MOVE, (int8, 5), (int8, 1)) failed at the allow-list check
C8_Witness ==
  /\ last.kind = "fold" /\ last.op = "PRIM_MOVE"
  /\ last.a = IntQT(8, <<5>>) /\ last.b = IntQT(8, <<1>>)
  /\ last.status = "assert" /\ last.calls = {"isParamOpFoldable"}

\* the last call folded an allow-listed operator on a valid first operand
ValidA ==
  /\ last.kind = "fold" /\ last.op \in AllowList
  /\ last.a \in TypedOperands

C10_RoundTrip ==
  /\ last.kind = "serdes" =>
       LET p == ParamOf(last.src[1], last.src[2]) IN
       /\ last.inst \in 1..Len(store[last.ctx])
       /\ completeMatch(p, Result) /\ completeMatch(Result, p)
       /\ last.ctx = last.src[1] => (last.inst = last.src[2] /\ ~last.created)
  /\ \A c \in Ctx : \A i \in 1..Len(store[c]) : \A j \in 1..Len(store[c]) :
       store[c][i] = store[c][j] => i = j

\* the second Param of context 1, a negative real, was read back in
\* context 1 as the same instance after it had been read into context 2
C10_Witness ==
  /\ last.kind = "serdes" /\ last.ctx = 1 /\ last.src = <<1, 2>>
  /\ ParamOf(1, 2) = P("RealParam", R(0 - 2))
  /\ last.inst = 2 /\ ~last.created
  /\ Len(store[1]) = 2 /\ Len(store[2]) = 1

\* C11: completeMatch holds exactly for Params of the same kind whose
\* payloads compare equal; Params of different kinds never match, and then
\* the payload comparison is not called; the relation is reflexive and
\* symmetric.
C11_CompleteMatch ==
  \A c \in Ctx : \A d \in Ctx :
    \A i \in 1..Len(store[c]) : \A j \in 1..Len(store[d]) :
      LET p == store[c][i]
          q == store[d][j]
      IN /\ completeMatch(p, q) <=> (p.tag = q.tag /\ contentsMatchInner(p, q))
         /\ completeMatch(p, q) <=> (p = q)
         /\ p.tag # q.tag =>
              (~completeMatch(p, q) /\ "contentsMatchInner" \notin completeMatchCalls(p, q))
         /\ completeMatch(p, p)
         /\ completeMatch(p, q) <=> completeMatch(q, p)

\* context 1 holds IntParam 5 and UintParam 5, which do not match, and
\* context 2 has read IntParam 5 back, which matches the one of context 1
C11_Witness ==
  /\ last.kind = "serdes"
  /\ store[1] = <<P("IntParam", I64(5)), P("UintParam", I64(5))>>
  /\ store[2] = <<P("IntParam", I64(5))>>
  /\ completeMatch(store[1][1], store[2][1])
  /\ ~completeMatch(store[1][1], store[1][2])

(***************************************************************************)
(* Reference reading of a literal, for the parser properties: the text     *)
(* after the prefix or the signs, its redundant zeros dropped, compared    *)
(* digit by digit.                                                         *)
(***************************************************************************)
IntParsers ==
  {"binStr2uint64", "octStr2uint64", "decStr2uint64", "decStr2int64", "hexStr2uint64"}

Radix(fn) ==
  CASE fn = "binStr2uint64" -> 2 [] fn = "octStr2uint64" -> 8
    [] fn = "hexStr2uint64" -> 16 [] OTHER -> 10

DigitSet(fn) ==
  CASE fn = "binStr2uint64" -> {"0", "1"}
    [] fn = "octStr2uint64" -> {"0", "1", "2", "3", "4", "5", "6", "7"}
    [] fn = "hexStr2uint64" ->
         {"0", "1", "2", "3", "4", "5", "6", "7", "8", "9", "a", "b", "c", "d", "e",
          "f", "A", "B", "C", "D", "E", "F"}
    [] OTHER -> {"0", "1", "2", "3", "4", "5", "6", "7", "8", "9"}

PrefixLetters(fn) ==
  CASE fn = "binStr2uint64" -> {"b", "B"} [] fn = "octStr2uint64" -> {"o", "O"}
    [] fn = "hexStr2uint64" -> {"x", "X"} [] OTHER -> {}

\* the number of leading '-' of a text
CountLead(t) ==
  CHOOSE k \in 0..Len(t) :
    /\ \A i \in 1..k : t[i] = "-"
    /\ k = Len(t) \/ t[k + 1] # "-"

\* the stated preconditions: the text is there and has the parser's prefix
StatedPre(fn, str) ==
  IF PrefixLetters(fn) = {} THEN TRUE
  ELSE Len(str) >= 2 /\ str[1] = "0" /\ str[2] \in PrefixLetters(fn)

\* the preconditions the code asserts: a text that is not empty, and at
\* least one character after a binary or hexadecimal prefix
AssertedPre(fn, str) ==
  /\ StatedPre(fn, str)
  /\ Len(str) >= 1
  /\ fn \in {"binStr2uint64", "hexStr2uint64"} => Len(str) >= 3

\* the text after the prefix or after the leading signs
BodyOf(fn, str) ==
  IF PrefixLetters(fn) # {} THEN SubSeq(str, 3, Len(str))
  ELSE IF fn = "decStr2int64" THEN SubSeq(str, CountLead(str) + 1, Len(str))
  ELSE str

RECURSIVE DropZeros(_)
DropZeros(t) == IF Len(t) > 1 /\ t[1] = "0" THEN DropZeros(Tail(t)) ELSE t

SigOf(fn, str) == DropZeros(BodyOf(fn, str))

AllIn(t, digits) == Len(t) >= 1 /\ \A i \in 1..Len(t) : t[i] \in digits

\* digit strings without redundant zeros, compared as numbers
DecLeq(t, max) ==
  \/ Len(t) < Len(max)
  \/ /\ Len(t) = Len(max)
     /\ \/ t = max
        \/ \E i \in 1..Len(t) :
             /\ \A j \in 1..(i - 1) : t[j] = max[j]
             /\ DigitVal(t[i]) < DigitVal(max[i])

\* the significant digits are more than 64 bits can hold
TooBig(fn, sig) ==
  CASE fn = "binStr2uint64" -> Len(sig) > 64
    [] fn = "hexStr2uint64" -> Len(sig) > 16
    [] fn = "octStr2uint64" -> Len(sig) > 22 \/ (Len(sig) = 22 /\ DigitVal(sig[1]) > 1)
    [] fn = "decStr2uint64" -> ~DecLeq(sig, DecMaxU)
    [] fn = "decStr2int64" -> ~DecLeq(sig, DecMaxS)

LowerText(t) == [i \in 1..Len(t) |-> Lower(t[i])]

\* the last call was one of the parsers fns with the asserted preconditions
ParseCall(fns) ==
  /\ last.kind = "parse" /\ last.fn \in fns
  /\ AssertedPre(last.fn, last.str)

Accepted == last.err = last.errIn

\* a well-formed literal was read
WellFormed == AllIn(SigOf(last.fn, last.str), DigitSet(last.fn))

\* the magnitude the call returned
Magnitude ==
  IF last.fn = "decStr2int64" /\ CountLead(last.str) % 2 = 1
    THEN WNeg(last.val) ELSE last.val

Denotes == RenderU(Magnitude, Radix(last.fn)) = LowerText(SigOf(last.fn, last.str))

OverflowReported ==
  /\ last.val = Bytes(0, 8)
  /\ last.err.kind = "Integer literal overflow"

\* C12: the binary and the hexadecimal parser accept exactly the
\* well-formed literals of at most 64 and 16 significant digits, with the
\* value the digits denote; one digit more is an overflow error and 0.
C12_BinHexLimit ==
  ParseCall({"binStr2uint64", "hexStr2uint64"}) =>
    LET sig == SigOf(last.fn, last.str) IN
    /\ last.status = "ok"
    /\ Accepted <=> (WellFormed /\ ~TooBig(last.fn, sig))
    /\ Accepted => Denotes
    /\ (WellFormed /\ TooBig(last.fn, sig)) => OverflowReported
    /\ sig \in {Rep("F", 16), Rep("f", 16), Rep("1", 64)} =>
         (Accepted /\ last.val = <<255, 255, 255, 255, 255, 255, 255, 255>>)
    /\ sig \in {Rep("F", 17), Rep("1", 65)} => OverflowReported

\* "0x0" followed by 16 'F' returned 2^64-1 and left the error alone
C12_Witness ==
  /\ last.kind = "parse" /\ last.fn = "hexStr2uint64"
  /\ last.str = <<"0", "x", "0">> \o Rep("F", 16)
  /\ last.val = <<255, 255, 255, 255, 255, 255, 255, 255>>
  /\ last.err = last.errIn /\ last.errIn.kind = "earlier message"

\* C13: on a well-formed octal literal the overflow error is reported
\* exactly when more than 22 significant digits remain, or 22 with a
\* leading digit above 1; every other one returns the value it denotes.
C13_OctLimit ==
  (ParseCall({"octStr2uint64"}) /\ WellFormed) =>
    LET sig == SigOf(last.fn, last.str) IN
    /\ last.status = "ok"
    /\ OverflowReported <=> TooBig(last.fn, sig)
    /\ ~TooBig(last.fn, sig) => (Accepted /\ Denotes)
    /\ sig = <<"1">> \o Rep("7", 21) =>
         last.val = <<255, 255, 255, 255, 255, 255, 255, 255>>

\* 0o1777777777777777777777 returned 2^64-1
C13_Witness ==
  /\ last.kind = "parse" /\ last.fn = "octStr2uint64"
  /\ last.str = <<"0", "o">> \o <<"1">> \o Rep("7", 21)
  /\ last.val = <<255, 255, 255, 255, 255, 255, 255, 255>>
  /\ last.err = last.errIn

\* C14: decStr2uint64 returns n for every all-digit literal denoting
\* n <= 2^64-1, whatever its leading zeros, and 0 with the overflow error
\* for every all-digit literal denoting more.
C14_DecUnsigned ==
  (ParseCall({"decStr2uint64"}) /\ WellFormed) =>
    LET sig == SigOf(last.fn, last.str) IN
    /\ last.status = "ok"
    /\ ~TooBig(last.fn, sig) => (Accepted /\ Denotes)
    /\ TooBig(last.fn, sig) => OverflowReported

\* "0018446744073709551615" returned 2^64-1
C14_Witness ==
  /\ last.kind = "parse" /\ last.fn = "decStr2uint64"
  /\ last.str = <<"0", "0">> \o DecMaxU
  /\ last.val = <<255, 255, 255, 255, 255, 255, 255, 255>>
  /\ last.err = last.errIn

\* C15: k leading '-' before digits of an in-range magnitude m give m for
\* even k and -m for odd k; a '-' after the first digit, or with no digit
\* after it, is an illegal character.
C15_SignToggles ==
  ParseCall({"decStr2int64"}) =>
    LET sig == SigOf(last.fn, last.str)
        k == CountLead(last.str)
    IN /\ last.status = "ok"
       /\ (WellFormed /\ ~TooBig(last.fn, sig)) =>
            /\ Accepted /\ Denotes
            /\ k % 2 = 0 => ~IsNeg(last.val)
            /\ (k % 2 = 1 /\ sig # <<"0">>) => IsNeg(last.val)
       /\ (AllIn(last.str, DecDigits \cup {"-"}) /\ ~WellFormed) =>
            /\ last.val = Bytes(0, 8)
            /\ last.err.kind = "illegal character" /\ last.err.ch = "-"

\* "---7" returned -7
C15_Witness ==
  /\ last.kind = "parse" /\ last.fn = "decStr2int64"
  /\ last.str = <<"-", "-", "-", "7">>
  /\ last.val = Bytes(0 - 7, 8)
  /\ last.err = last.errIn

\* the text with the redundant zeros left out: prefix or signs, then the
\* significant digits
Canonical(fn, str) ==
  SubSeq(str, 1, Len(str) - Len(BodyOf(fn, str))) \o SigOf(fn, str)

\* the value a parser returns for a text
ValueOf(fn, str, ub) ==
  LET e == Err("", "", "", <<>>) IN
  CASE fn = "binStr2uint64" -> binStr2uint64(str, Len(str), e, "none").val
    [] fn = "octStr2uint64" -> octStr2uint64(str, Len(str), e, "none", ub).val
    [] fn = "decStr2uint64" -> decStr2uint64(str, Len(str), e, "none", ub).val
    [] fn = "decStr2int64" -> decStr2int64(str, Len(str), e, "none", ub).val
    [] fn = "hexStr2uint64" -> hexStr2uint64(str, Len(str), e, "none", ub).val

\* C16: every integer parser accepts every well-formed in-range literal;
\* the returned value rendered in the radix is the text without prefix,
\* signs and redundant zeros; the value is the one of the text without
\* the redundant zeros, which do not count toward the limit; an all-zero
\* literal returns 0 with no error.
C16_RoundTrip ==
  (ParseCall(IntParsers) /\ WellFormed /\ ~TooBig(last.fn, SigOf(last.fn, last.str))) =>
    /\ last.status = "ok"
    /\ Accepted
    /\ Denotes
    /\ \A ub \in ScanOverflow :
         last.val = ValueOf(last.fn, Canonical(last.fn, last.str), ub)
    /\ SigOf(last.fn, last.str) = <<"0">> => last.val = Bytes(0, 8)

\* "0x0000" returned 0 and left the caller's error string alone
C16_Witness ==
  /\ last.kind = "parse" /\ last.fn = "hexStr2uint64"
  /\ last.str = <<"0", "x", "0", "0", "0", "0">>
  /\ last.val = Bytes(0, 8)
  /\ last.err = last.errIn /\ last.errIn.kind = "earlier message"

\* "0b00" followed by 64 ones returned 2^64-1
C16_WitnessLimit ==
  /\ last.kind = "parse" /\ last.fn = "binStr2uint64"
  /\ last.str = <<"0", "b", "0", "0">> \o Rep("1", 64)
  /\ last.val = <<255, 255, 255, 255, 255, 255, 255, 255>>

\* the most digits a 64-bit value has in the radix of a parser
MaxDigits(fn) ==
  CASE fn = "binStr2uint64" -> 64 [] fn = "octStr2uint64" -> 22
    [] fn = "hexStr2uint64" -> 16 [] fn = "decStr2uint64" -> 20
    [] fn = "decStr2int64" -> 19

\* the first character of a text outside a set of characters, "" if none
RefFirstBad(t, legal) ==
  IF \A i \in 1..Len(t) : t[i] \in legal THEN ""
  ELSE t[CHOOSE i \in 1..Len(t) :
           t[i] \notin legal /\ \A j \in 1..(i - 1) : t[j] \in legal]

\* the last call read a text with a character outside the radix's digits
HasIllegal == RefFirstBad(SigOf(last.fn, last.str), DigitSet(last.fn)) # ""

\* the significant part has more characters than a 64-bit value has digits
TooLong == Len(SigOf(last.fn, last.str)) > MaxDigits(last.fn)

\* the length test of the binary, octal and hexadecimal parser
LengthRejected ==
  LET sig == SigOf(last.fn, last.str) IN
  CASE last.fn = "binStr2uint64" -> Len(sig) > 64
    [] last.fn = "hexStr2uint64" -> Len(sig) > 16
    [] last.fn = "octStr2uint64" -> Len(sig) > 22 \/ (Len(sig) = 22 /\ sig[1] # "1")
    [] OTHER -> FALSE

IllegalReported(ch) ==
  /\ last.val = Bytes(0, 8)
  /\ last.err.kind = "illegal character" /\ last.err.ch = ch

\* C17 as stated: in every integer parser an input that has a character
\* outside the digit set and is too long for 64 bits gets the
\* illegal-character error naming that character, not the overflow error.
C17_Original ==
  (ParseCall(IntParsers) /\ HasIllegal /\ TooLong) =>
    /\ last.err.kind = "illegal character"
    /\ last.err.ch \notin DigitSet(last.fn) \cup {""}

\* C17: the decimal parsers check the characters before any magnitude
\* check, so a text with a character outside 0-9 gets the
\* illegal-character error naming the first such character, however long
\* it is; the binary, octal and hexadecimal parser test the length first,
\* so a text that fails the length test gets the overflow error even if
\* it has an illegal character, and the illegal-character error is
\* reported only for a text that passes the length test.
C17_CheckOrder ==
  ParseCall(IntParsers) =>
    LET sig == SigOf(last.fn, last.str) IN
    /\ last.status = "ok"
    /\ (last.fn \in {"decStr2uint64", "decStr2int64"} /\ HasIllegal) =>
         IllegalReported(RefFirstBad(sig, DigitSet(last.fn)))
    /\ LengthRejected => OverflowReported
    /\ (last.fn \in {"binStr2uint64", "hexStr2uint64"} /\ HasIllegal /\ ~LengthRejected) =>
         IllegalReported(RefFirstBad(sig, DigitSet(last.fn)))
    /\ (last.fn = "octStr2uint64" /\ ~LengthRejected
          /\ RefFirstBad(sig, DigitSet(last.fn) \cup {"8"}) # "") =>
         IllegalReported(RefFirstBad(sig, DigitSet(last.fn) \cup {"8"}))
    /\ last.err.kind = "illegal character" => ~LengthRejected

\* "0x" with 16 'F' and then 'g' was rejected with the overflow error
C17_Witness ==
  /\ last.kind = "parse" /\ last.fn = "hexStr2uint64"
  /\ last.str = <<"0", "x">> \o Rep("F", 16) \o <<"g">>
  /\ last.val = Bytes(0, 8)
  /\ last.err.kind = "Integer literal overflow"

\* C18: every integer parser rejects every text that has, after prefix and
\* signs, a character outside the radix's digit set: it returns 0 with the
\* illegal-character error naming such a character, and never accepts the
\* text with a value computed from part of it.  Stated for the texts that
\* pass the length test, which the order of the checks does not affect.
C18_RejectsIllegal ==
  (ParseCall(IntParsers) /\ HasIllegal /\ ~LengthRejected) =>
    /\ ~Accepted
    /\ last.val = Bytes(0, 8)
    /\ last.err.kind = "illegal character"
    /\ last.err.ch \notin DigitSet(last.fn) \cup {""}

\* what the octal parser does with an '8': "0o18" is accepted as 1
C18_OctalEightAccepted ==
  /\ last.kind = "parse" /\ last.fn = "octStr2uint64"
  /\ last.str = <<"0", "o", "1", "8">>
  /\ last.val = Bytes(1, 8)
  /\ last.err = last.errIn

AllParsers == IntParsers \cup {"str2double"}

\* the messages the parsers write
ParserMessages ==
  {"illegal character", "Integer literal overflow", "error converting",
   "overflow or underflow", "error"}

\* the call wrote the error string, and returned zero
FailedWithZero ==
  /\ last.err.kind \in ParserMessages
  /\ last.val = Bytes(0, 8)
  /\ last.fn = "str2double" => last.num = "0.0"

C20_TextOnly ==
  ParseCall({"str2double"}) =>
    \E uf \in Underflow :
      LET r == str2double(last.str, Len(last.str), last.errIn, "none", uf) IN
      /\ last.status = r.status
      /\ last.num = r.num
      /\ last.err = r.err

\* the smallest normal double was rejected because errno was still ERANGE
C20_StaleErrno ==
  /\ last.kind = "parse" /\ last.fn = "str2double"
  /\ last.str = DblMinText
  /\ last.errnoIn = "ERANGE"
  /\ last.num = "0.0"
  /\ last.err.kind = "overflow or underflow"

(***************************************************************************)
(* The conversions between Params and Immediates.                          *)
(***************************************************************************)
\* the discriminant a Type stands for: kind, width selector, string subkind
\* and the union member of that kind
RefKind(t) ==
  CASE t.kind = "bool" -> "NUM_KIND_BOOL" [] t.kind = "int" -> "NUM_KIND_INT"
    [] t.kind = "uint" -> "NUM_KIND_UINT" [] t.kind = "real" -> "NUM_KIND_REAL"
    [] t.kind = "imag" -> "NUM_KIND_IMAG" [] t.kind = "complex" -> "NUM_KIND_COMPLEX"
    [] t.kind \in {"string", "bytes", "cstring"} -> "CONST_KIND_STRING"

RefIndex(t) ==
  CASE t.kind = "bool" -> "BOOL_SIZE_SYS"
    [] t.kind \in {"int", "uint"} /\ t.width = 8 -> "INT_SIZE_8"
    [] t.kind \in {"int", "uint"} /\ t.width = 16 -> "INT_SIZE_16"
    [] t.kind \in {"int", "uint"} /\ t.width = 32 -> "INT_SIZE_32"
    [] t.kind \in {"int", "uint"} /\ t.width = 64 -> "INT_SIZE_64"
    [] t.kind \in {"real", "imag"} /\ t.width = 32 -> "FLOAT_SIZE_32"
    [] t.kind \in {"real", "imag"} /\ t.width = 64 -> "FLOAT_SIZE_64"
    [] t.kind = "complex" /\ t.width = 64 -> "COMPLEX_SIZE_64"
    [] t.kind = "complex" /\ t.width = 128 -> "COMPLEX_SIZE_128"
    [] OTHER -> "none"

RefSubkind(t) ==
  CASE t.kind = "string" -> "STRING_KIND_STRING" [] t.kind = "bytes" -> "STRING_KIND_BYTES"
    [] t.kind = "cstring" -> "STRING_KIND_C_STRING" [] OTHER -> "none"

\* the payload of the canonical zero of a type
RefZero(t) ==
  CASE t.kind = "bool" -> <<0>>
    [] t.kind \in {"int", "uint"} -> [i \in 1..(t.width \div 8) |-> 0]
    [] t.kind \in {"real", "imag"} -> <<0>>
    [] t.kind = "complex" -> <<0, 0>>
    [] OTHER -> <<>>

\* C21: paramToImmediate with a null Param and a supported Type returns the
\* canonical zero of the type: kind, width selector and string subkind of
\* the Type, and the payload false, 0, 0.0, (0.0, 0.0) or the empty string.
C21_CanonicalZero ==
  (last.kind = "paramToImmediate" /\ last.p = NoParam /\ last.t \in SupportedTypes) =>
    /\ last.ok
    /\ last.imm.const_kind = RefKind(last.t)
    /\ last.imm.num_index = RefIndex(last.t)
    /\ last.imm.string_kind = RefSubkind(last.t)
    /\ last.imm.v = RefZero(last.t)

\* the null Param with uint(32) gave the 32-bit unsigned zero
C21_Witness ==
  /\ last.kind = "paramToImmediate" /\ last.p = NoParam /\ last.t = Ty("uint", 32)
  /\ last.ok
  /\ last.imm.const_kind = "NUM_KIND_UINT" /\ last.imm.num_index = "INT_SIZE_32"
  /\ last.imm.v = <<0, 0, 0, 0>>

\* the Param kind that goes with a kind of Type
RefTag(kind) ==
  CASE kind = "bool" -> "BoolParam" [] kind = "int" -> "IntParam"
    [] kind = "uint" -> "UintParam" [] kind \in {"real", "imag"} -> "RealParam"
    [] kind = "complex" -> "ComplexParam"
    [] kind \in {"string", "bytes", "cstring"} -> "StringParam"
    [] kind = "nothing" -> "NoneParam" [] OTHER -> "none"

\* the value of p can be held at the width of t
Representable(p, t) ==
  CASE t.kind = "int" -> FitsSigned(p.val, t.width \div 8)
    [] t.kind = "uint" -> FitsUnsigned(p.val, t.width \div 8)
    [] t.kind \in {"real", "imag"} /\ t.width = 32 -> ToFloat32(p.val[1]) = p.val[1]
    [] t.kind = "complex" /\ t.width = 64 ->
         ToFloat32(p.val[1]) = p.val[1] /\ ToFloat32(p.val[2]) = p.val[2]
    [] OTHER -> TRUE

\* the last call converted back the Immediate of a Param of the kind of
\* its supported Type
MatchingPair ==
  /\ last.kind = "immediateToParam" /\ last.imm \notin RawImmediates
  /\ last.t \in SupportedTypes
  /\ last.p # NoParam /\ last.p.tag = RefTag(last.t.kind)

\* C22: immediateToParam returns a pair for every Immediate that
\* paramToImmediate produces, with a Param of the kind of the returned
\* Type; for a Param of the kind of a supported Type t whose value is
\* representable at t's width it returns t and the interned Param itself;
\* an Immediate with any other discriminant is an invariant failure that
\* returns no pair and creates no Param.
C22_Inverse ==
  last.kind = "immediateToParam" =>
    /\ last.imm \notin RawImmediates =>
         /\ last.ok
         /\ store[1][last.inst].tag = RefTag(last.type.kind)
         /\ last.type \in SupportedTypes
         /\ (last.t \in SupportedTypes /\ last.p.tag \in {"null", RefTag(last.t.kind)}) =>
              last.type = last.t
    /\ (MatchingPair /\ Representable(last.p, last.t)) =>
         /\ last.type = last.t
         /\ store[1][last.inst] = last.p
         /\ last.inst = 1 /\ ~last.created /\ store[1] = <<last.p>>
    /\ last.imm \in RawImmediates =>
         /\ ~last.ok
         /\ store[1] = Seed(inp)

\* the RealParam 1.0 with the 32-bit imaginary type came back as itself
\* with the 32-bit imaginary type
C22_Witness ==
  /\ last.kind = "immediateToParam"
  /\ last.p = P("RealParam", R(1)) /\ last.t = Ty("imag", 32)
  /\ last.imm.const_kind = "NUM_KIND_IMAG" /\ last.imm.num_index = "FLOAT_SIZE_32"
  /\ last.ok /\ last.type = Ty("imag", 32) /\ store[1][last.inst] = last.p

(***************************************************************************)
(* The life of the interned Params.                                        *)
(***************************************************************************)
\* the Params a context holds, and the ones requested from it so far
Held(c) == {store[c][i] : i \in 1..Len(store[c])}
Requested(c) == {e.param : e \in {x \in hist : x.ctx = c}}

\* C23: a context holds exactly one instance for each kind and value
\* requested from it so far by a getter, a fold or a deserialization; a
\* call creates an instance exactly when the value it asks for is not held
\* yet, and then exactly one; no call removes, replaces or changes an
\* instance that exists.
C23_OnePerValue ==
  /\ [](\A c \in Ctx :
          /\ \A i \in 1..Len(store[c]) : \A j \in 1..Len(store[c]) :
               store[c][i] = store[c][j] => i = j
          /\ Held(c) = Requested(c))
  /\ [][\A c \in Ctx :
          /\ Len(store'[c]) >= Len(store[c])
          /\ SubSeq(store'[c], 1, Len(store[c])) = store[c]
          /\ (c = last'.ctx /\ last'.status = "ok") =>
               /\ last'.created <=> store'[c][last'.inst] \notin Held(c)
               /\ Len(store'[c]) = Len(store[c]) + (IF last'.created THEN 1 ELSE 0)
          /\ (c # last'.ctx \/ last'.status # "ok") => store'[c] = store[c]]_vars

\* context 1 holds three Params, and the last call, a fold, returned one
\* of them without creating another
C23_Witness ==
  /\ Len(store[1]) = 3
  /\ last.kind = "fold" /\ last.ctx = 1 /\ last.status = "ok" /\ ~last.created
  /\ Held(1) = Requested(1)

(***************************************************************************)
(* Determinism of fold.                                                    *)
(***************************************************************************)
\* the last call was the pending call of the repeated-call specification
PendingCall ==
  /\ last.kind = "fold" /\ last.ctx = 1
  /\ last.op = inp.op /\ last.a = inp.a /\ last.b = inp.b

\* C24: on one context, every run of a fold call with the same operator
\* and operands returns what its first run returned, whatever calls were
\* made in between: the qualifier PARAM, the identical Type and the
\* identical Param instance, of the kind of the Type; a run after the
\* first creates no Param.
C24_Deterministic ==
  PendingCall =>
    /\ last.status = inp.first.status
    /\ last.status = "ok" =>
         /\ last.q = "PARAM"
         /\ last.type = inp.first.type
         /\ last.inst = inp.first.inst
         /\ store[1][last.inst].tag = RefTag(last.type.kind)
         /\ inp.first.n >= 2 => ~last.created

\* int(8) 100 + 100 was folded a second time after other calls had added
\* Params to the context, and returned the instance of the first run
C24_Witness ==
  /\ PendingCall /\ last.op = "P_prim_add" /\ last.a = IntQT(8, <<100>>)
  /\ last.b = last.a
  /\ inp.first.n = 2 /\ last.status = "ok" /\ ~last.created
  /\ last.inst = inp.first.inst /\ last.inst < Len(store[1])
  /\ store[1][last.inst] = P("IntParam", I64(0 - 56))

(***************************************************************************)
(* The Immediates paramToImmediate builds.                                 *)
(***************************************************************************)
\* the Param kind the conversion switches on
EffTag(p, t) == IF p = NoParam THEN RefTag(t.kind) ELSE p.tag

\* the Param kinds whose case never looks at the Type
TypeBlind == {"BoolParam", "NoneParam"}

\* the kind that goes with a Param kind
TagKind(tag, t) ==
  CASE tag \in TypeBlind -> "NUM_KIND_BOOL"
    [] tag = "IntParam" -> "NUM_KIND_INT" [] tag = "UintParam" -> "NUM_KIND_UINT"
    [] tag = "RealParam" -> (IF t.kind = "imag" THEN "NUM_KIND_IMAG" ELSE "NUM_KIND_REAL")
    [] tag = "ComplexParam" -> "NUM_KIND_COMPLEX"
    [] tag = "StringParam" -> "CONST_KIND_STRING"
    [] OTHER -> "none"

\* the union member that goes with a discriminant
RefField(imm) ==
  CASE imm.const_kind = "NUM_KIND_BOOL" -> "v_bool"
    [] imm.const_kind = "NUM_KIND_INT" -> "v_int"
    [] imm.const_kind = "NUM_KIND_UINT" -> "v_uint"
    [] imm.const_kind \in {"NUM_KIND_REAL", "NUM_KIND_IMAG"} -> "v_float"
    [] imm.const_kind = "NUM_KIND_COMPLEX" ->
         (IF imm.num_index = "COMPLEX_SIZE_64" THEN "v_complex64" ELSE "v_complex128")
    [] imm.const_kind = "CONST_KIND_STRING" -> "v_string"
    [] OTHER -> "none"

\* the Immediate of the last call has a discriminant that goes with the
\* member written, its kind from the Param kind and its width from the Type
Consistent ==
  LET tag == EffTag(last.p, last.t)
      imm == last.imm IN
  /\ imm.const_kind = TagKind(tag, last.t)
  /\ imm.field = RefField(imm)
  /\ imm.num_index = (IF tag \in TypeBlind THEN "BOOL_SIZE_SYS" ELSE RefIndex(last.t))
  /\ imm.string_kind = (IF tag = "StringParam" THEN RefSubkind(last.t) ELSE "none")
  /\ tag \in {"IntParam", "UintParam"} => Len(imm.v) = last.t.width \div 8
  /\ \A q \in ConvParams :
       (q.tag = last.p.tag /\ paramToImmediate(q, last.t).ok) =>
         /\ paramToImmediate(q, last.t).imm.const_kind = imm.const_kind
         /\ paramToImmediate(q, last.t).imm.num_index = imm.num_index
         /\ paramToImmediate(q, last.t).imm.field = imm.field

\* the statement with every Param whose kind is not the kind of the Type
\* failing
C25_Original ==
  last.kind = "paramToImmediate" =>
    /\ last.ok => Consistent
    /\ (last.p # NoParam /\ last.p.tag # RefTag(last.t.kind)) => ~last.ok
    /\ last.t \notin SupportedTypes \cup {NothingTy} => ~last.ok

\* C25: every Immediate returned by paramToImmediate has a discriminant
\* that goes with the member written: the kind comes from the Param kind
\* (from the Type for a null Param), the width selector from the Type's
\* bitwidth alone.  An Int, Uint, Real, Complex or String Param with a
\* Type of another kind or of an unsupported width, an EnumParam, and a
\* null Param with a Type of no Param kind are invariant failures; a
\* BoolParam or a NoneParam gives a bool Immediate whatever the Type is.
C25_Discriminant ==
  last.kind = "paramToImmediate" =>
    /\ last.ok => Consistent
    /\ last.ok <=>
         \/ EffTag(last.p, last.t) \in TypeBlind
         \/ /\ EffTag(last.p, last.t) = RefTag(last.t.kind)
            /\ last.t \in SupportedTypes

\* the BoolParam true with the type int(8) gave the bool Immediate true
C25_Witness ==
  /\ last.kind = "paramToImmediate"
  /\ last.p = P("BoolParam", B(TRUE)) /\ last.t = Ty("int", 8)
  /\ last.ok /\ last.imm.const_kind = "NUM_KIND_BOOL"
  /\ last.imm.field = "v_bool" /\ last.imm.v = B(TRUE)

\* the IntParam 300 with the type uint(8) was an invariant failure
C25_WitnessFail ==
  /\ last.kind = "paramToImmediate" /\ last.p.tag = "IntParam"
  /\ last.t.kind = "uint" /\ ~last.ok

(***************************************************************************)
(* The Param kind of a Type.                                               *)
(***************************************************************************)
\* C26: for a null Param the Param kind is derived from the Type alone:
\* bool gives BoolParam, complex ComplexParam, int IntParam, uint
\* UintParam, real and imaginary RealParam, string, bytes and C-string
\* StringParam, nothing NoneParam, at every width; a Type of any other
\* kind is an invariant failure.
C26_TagOfType ==
  last.kind = "guessParamTagFromType" =>
    /\ last.p = NoParam
    /\ last.t.kind = "bool" => last.tag = "BoolParam"
    /\ last.t.kind = "complex" => last.tag = "ComplexParam"
    /\ last.t.kind = "int" => last.tag = "IntParam"
    /\ last.t.kind = "uint" => last.tag = "UintParam"
    /\ last.t.kind \in {"real", "imag"} => last.tag = "RealParam"
    /\ last.t.kind \in {"string", "bytes", "cstring"} => last.tag = "StringParam"
    /\ last.t.kind = "nothing" => last.tag = "NoneParam"
    /\ last.t.kind \notin {"bool", "complex", "int", "uint", "real", "imag",
                            "string", "bytes", "cstring", "nothing"} =>
         last.tag = "assert"
    /\ \A u \in ConvTypes :
         u.kind = last.t.kind => guessParamTagFromType(u) = last.tag

\* the 32-bit imaginary type gave RealParam
C26_Witness ==
  /\ last.kind = "guessParamTagFromType" /\ last.p = NoParam
  /\ last.t = Ty("imag", 32) /\ last.tag = "RealParam"

\* a record type was an invariant failure
C26_WitnessOther ==
  /\ last.kind = "guessParamTagFromType" /\ last.t = RecordTy
  /\ last.tag = "assert"

(***************************************************************************)
(* The range of decStr2int64.                                              *)
(***************************************************************************)
\* -2^63
MinInt64 == [i \in 1..8 |-> IF i = 8 THEN 128 ELSE 0]

\* C27: decStr2int64 accepts a text only when the magnitude left after
\* the signs and the redundant zeros is at most 2^63-1, and never returns
\* -2^63; the text of a magnitude of 2^63, with or without a sign, is
\* rejected with the overflow message that names a 64-bit unsigned
\* integer.
C27_Range ==
  ParseCall({"decStr2int64"}) =>
    LET sig == SigOf(last.fn, last.str) IN
    /\ (Accepted /\ WellFormed) => ~TooBig(last.fn, sig)
    /\ last.val # MinInt64
    /\ sig = DecOverS =>
         /\ last.err = OverflowErr(last.str)
         /\ last.val = Bytes(0, 8)

\* "-9223372036854775808" was passed to decStr2int64
C27_Witness ==
  /\ last.kind = "parse" /\ last.fn = "decStr2int64"
  /\ last.str = <<"-">> \o DecOverS

\* "-9223372036854775808" came back as -2^63 with the error string as
\* the caller passed it
C27_MinReturned ==
  /\ last.kind = "parse" /\ last.fn = "decStr2int64"
  /\ last.str = <<"-">> \o DecOverS
  /\ last.val = MinInt64 /\ last.err = last.errIn

\* with a library whose sscanf stores the largest value on overflow the
\* magnitudes above 2^63-1 are all rejected with the overflow message
C27_Saturating ==
  ParseCall({"decStr2int64"}) =>
    LET r == decStr2int64(last.str, Len(last.str), last.errIn, "none", "saturate")
        sig == SigOf(last.fn, last.str) IN
    /\ r.val # MinInt64
    /\ (WellFormed /\ TooBig(last.fn, sig)) =>
         r.err = OverflowErr(last.str) /\ r.val = Bytes(0, 8)

\* with a library whose sscanf stores the low 64 bits, a magnitude from
\* 2^63 to 2^64-1 is accepted and returned as a negative number
C27_Wrapping ==
  ParseCall({"decStr2int64"}) =>
    LET r == decStr2int64(last.str, Len(last.str), last.errIn, "none", "wrap")
        sig == SigOf(last.fn, last.str) IN
    (WellFormed /\ TooBig(last.fn, sig) /\ DecLeq(sig, DecMaxU)) =>
      r.err = last.errIn /\ r.val # Bytes(0, 8)

(***************************************************************************)
(* The nothing type and the Immediates.                                    *)
(***************************************************************************)
BoolFalseImm == Imm("NUM_KIND_BOOL", "BOOL_SIZE_SYS", "none", "v_bool", B(FALSE))

\* the last call was a cast of a convertible source to the nothing type
CastToNothing ==
  /\ last.kind = "fold" /\ last.op = "PRIM_CAST"
  /\ last.b.type = NothingTy
  /\ paramToImmediate(last.a.param, last.a.type).ok

\* paramToImmediate of a NoneParam, and of a null Param with the nothing
\* type, is the bool Immediate false, which immediateToParam turns into
\* (BoolParam false, bool)
NothingIsFalse ==
  /\ paramToImmediate(NoParam, NothingTy) = ImmOk(BoolFalseImm)
  /\ \A t \in ConvTypes :
       paramToImmediate(P("NoneParam", <<>>), t) = ImmOk(BoolFalseImm)
  /\ LET pr == immediateToParam(store[1], BoolFalseImm) IN
       /\ pr.ok /\ pr.type = BoolTy
       /\ pr.st[pr.inst] = P("BoolParam", B(FALSE))

\* the statement with every cast to the nothing type returning false
C28_Original ==
  CastToNothing =>
    /\ NothingIsFalse
    /\ last.status = "ok" /\ last.type = BoolTy
    /\ store[1][last.inst] = P("BoolParam", B(FALSE))

\* C28: the nothing type does not survive the Immediate round trip:
\* paramToImmediate of a NoneParam, or of a null Param with the nothing
\* type, is the bool Immediate false, and immediateToParam on it is
\* (BoolParam false, bool).  A cast to the nothing type therefore returns
\* a BoolParam with the bool type, never a NoneParam or the nothing type;
\* its value is the source converted to bool: false for a zero source,
\* true for any other.
C28_NothingIsBool ==
  CastToNothing =>
    /\ NothingIsFalse
    /\ last.status = "ok" /\ last.q = "PARAM" /\ last.type = BoolTy
    /\ store[1][last.inst].tag = "BoolParam"
    /\ \A i \in 1..Len(store[1]) : store[1][i].tag # "NoneParam"
    /\ (last.a.type.kind \in {"int", "uint", "bool"}) =>
         store[1][last.inst].val =
           B(\E i \in 1..Len(last.a.param.val) : last.a.param.val[i] # 0)

\* the int(8) 5 cast to the nothing type came back as (BoolParam true, bool)
C28_Witness ==
  /\ CastToNothing /\ last.a = IntQT(8, <<5>>)
  /\ last.status = "ok" /\ last.type = BoolTy
  /\ store[1][last.inst] = P("BoolParam", B(TRUE))

\* the int(8) 0 cast to the nothing type came back as (BoolParam false, bool)
C28_WitnessZero ==
  /\ CastToNothing /\ last.a = IntQT(8, <<0>>)
  /\ last.status = "ok" /\ last.type = BoolTy
  /\ store[1][last.inst] = P("BoolParam", B(FALSE))

(***************************************************************************)
(* What a cast reads of its destination.                                   *)
(***************************************************************************)
\* destinations with the Type t: every qualifier, with and without a
\* param value
DestVariants(t) ==
  {QT(q, t, p) : q \in {"TYPE", "PARAM", "VAR", "UNKNOWN"},
                 p \in {NoParam, P("IntParam", I64(7)), P("RealParam", R(2)),
                        P("StringParam", <<97>>)}}

\* C29: the result of a cast depends on the source operand and on the
\* destination's Type only: on the same context, the cast of the same
\* source to any destination with the same Type, whatever its qualifier
\* and its param value, returns the same outcome, Type and Param
\* instance, and a destination without a param value causes no failure.
C29_DestTypeOnly ==
  (last.kind = "fold" /\ last.op = "PRIM_CAST") =>
    LET st0 == Seed(inp)
        r0 == fold(st0, "PRIM_CAST", last.a, last.b) IN
    /\ r0.status = last.status /\ r0.type = last.type /\ r0.inst = last.inst
    /\ r0.st = store[1]
    /\ \A b \in DestVariants(last.b.type) :
         LET r == fold(st0, "PRIM_CAST", last.a, b) IN
         /\ r.status = last.status /\ r.q = last.q
         /\ r.type = last.type /\ r.inst = last.inst
         /\ r.st = store[1]
    /\ (/\ paramToImmediate(last.a.param, last.a.type).ok
        /\ hasParamPtr(last.a)
        /\ last.b.type \in SupportedTypes) => last.status = "ok"

\* (int64, 200) was cast to a destination int(8) that carries no param
\* value and the qualifier VAR, and came back as -56
C29_Witness ==
  /\ last.kind = "fold" /\ last.op = "PRIM_CAST"
  /\ last.a = IntQT(64, I64(200)) /\ last.b = QT("VAR", Ty("int", 8), NoParam)
  /\ last.status = "ok" /\ last.type = Ty("int", 8)
  /\ store[1][last.inst] = P("IntParam", I64(0 - 56))

(***************************************************************************)
(* BasicClassType::isSubtypeOf.                                            *)
(***************************************************************************)
\* the parent chain of c, c first
RECURSIVE Chain(_, _)
Chain(h, c) == IF c = 0 THEN <<>> ELSE <<c>> \o Chain(h, h.parent[c])

\* t is parentType or an instantiation of it
IsMatch(h, t, parentType) == t = parentType \/ h.inst[t] = parentType

\* the positions of the chain of the receiver that match
MatchAt ==
  LET ch == Chain(inp.a, inp.b.this) IN
  {i \in 1..Len(ch) : IsMatch(inp.a, ch[i], inp.b.parentType)}

FirstMatch ==
  LET ch == Chain(inp.a, inp.b.this) IN
  ch[CHOOSE i \in MatchAt : \A j \in MatchAt : i <= j]

Returned == last.kind = "isSubtypeOf" /\ last.pc = "done"

\* what holds of a call with a non-null argument while it runs and when
\* it has returned
SubtypeAnswer ==
  (last.kind = "isSubtypeOf" /\ inp.b.parentType # 0) =>
    /\ last.pc \in {"loop", "done"}
    /\ last.iters <= Len(Chain(inp.a, inp.b.this))
    /\ Returned =>
         /\ last.ret <=> MatchAt # {}
         /\ last.ret =>
              /\ last.t = FirstMatch
              /\ last.converts = (inp.b.converts \/ last.t # inp.b.this)
              /\ last.instantiates =
                   (inp.b.instantiates \/ last.t # inp.b.parentType)
         /\ ~last.ret =>
              /\ last.converts = inp.b.converts
              /\ last.instantiates = inp.b.instantiates
         /\ inp.b.this = inp.b.parentType =>
              /\ last.ret /\ last.iters = 0
              /\ last.converts = inp.b.converts
              /\ last.instantiates = inp.b.instantiates

\* C30: isSubtypeOf with a non-null argument walks the parent chain of the
\* receiver and returns after at most one iteration per type of the chain;
\* it returns true exactly when a type of the chain, the receiver
\* included, is the argument or was instantiated from it, stopping at the
\* first such type; it sets converts exactly when that type is not the
\* receiver, sets instantiates exactly when the match is through
\* instantiatedFrom, never clears a flag, and leaves both flags as they
\* were when it returns false; t.isSubtypeOf(t) is true with both flags
\* as they were.
C30_Subtype ==
  /\ []SubtypeAnswer
  /\ (inp.b.parentType # 0) => <>Returned

\* class 4 was asked about class 1: its parent 3 is an instantiation of
\* class 1, found before class 1 itself further up the chain; both flags
\* were false and are now set
C30_Witness ==
  /\ Returned /\ inp.b.this = 4 /\ inp.b.parentType = 1
  /\ inp.a.parent[4] = 3 /\ inp.a.inst[3] = 1 /\ inp.a.parent[3] = 2
  /\ inp.a.parent[2] = 1 /\ inp.a.inst[4] = 0
  /\ ~inp.b.converts /\ ~inp.b.instantiates
  /\ last.ret /\ last.t = 3 /\ last.iters = 1
  /\ last.converts /\ last.instantiates

====
